---------------------------- MODULE ChatPrompt ----------------------------
(***************************************************************************)
(* The input line of `umg chat` on a terminal: the text, the cursor, the    *)
(* suggestions below it and the one that is highlighted, what is on the     *)
(* screen, and the lines that were entered and have not ended.              *)
(*                                                                          *)
(* Text is a sequence of units.  A command's name is one letter: "t" is     *)
(* /target, "r" is /accept and /reject, which complete alike, "l" is        *)
(* /leave, "q" is /quit; "m" is a transport.  What the session knows        *)
(* (ChatSession) changes here in any way it could.  Chat_proofs extends both *)
(* modules, so what a specification is made of has its own name in each.    *)
(***************************************************************************)
EXTENDS Integers, Sequences, SequencesExt, FiniteSets

CONSTANTS
  Units,          \* what text is made of
  Keys,           \* the units that are typed
  Pastes,         \* the texts that arrive in one chunk
  TransportNames, \* one-unit names of the transports
  Ids,            \* the chats that the session may come to know
  Invites,        \* the invites
  NameOf,         \* a chat's display name, <<>> if it has none
  Newline,
  CleanScreen,
  MaxTyped,       \* bound: no typing beyond this length
  MaxFlight       \* bound: lines that have not ended

Space == " "
Commands == <<"t", "r", "l", "q">>

ASSUME UnitAssumption ==
  /\ {Space, "/"} \cup ToSet(Commands) \cup Keys \cup TransportNames \subseteq Units
  /\ Pastes \cup Ids \cup Invites \subseteq Seq(Units)
ASSUME IdAssumption ==
  /\ \A c \in Ids \cup Invites : c # <<>> /\ \A i \in DOMAIN c : c[i] \notin {Space, "/", Newline}
  /\ IsFiniteSet(Ids \cup Invites) /\ DOMAIN NameOf = Ids \cup Invites
ASSUME TransportAssumption ==
  IsFiniteSet(TransportNames) /\ "m" \in TransportNames /\ Space \notin TransportNames
ASSUME FlightAssumption == MaxFlight \in Nat

VARIABLES
  buffer,
  cursor,
  suggestions,      \* the values they stand for
  selected,         \* an index of suggestions, from 0
  showSuggestions,
  screen            \* what was drawn last, or CleanScreen

promptVars == <<buffer, cursor, suggestions, selected, showSuggestions, screen>>

VARIABLES
  flight,           \* how many lines were entered and have not ended
  chats,            \* the chats known, in the order they were
  invites

knowledge == <<chats, invites>>

VARIABLES
  chosen,           \* history: the chat Enter completed last, if nothing happened since
  streak            \* history: how many times Enter completed in a row

inputVars == <<promptVars, flight, knowledge, chosen, streak>>

PromptTypeOK ==
  /\ buffer \in Seq(Units)
  /\ cursor \in 0..Len(buffer)
  /\ suggestions \in Seq(Seq(Units))
  /\ selected = 0 \/ selected \in 1..Len(suggestions) - 1
  /\ showSuggestions \in BOOLEAN
  /\ screen = CleanScreen \/ screen.cursor \in 0..Len(screen.text)
  /\ flight \in 0..MaxFlight
  /\ chats \in Seq(Ids) /\ IsInjective(chats)
  /\ invites \subseteq Invites
  /\ streak \in Nat

-----------------------------------------------------------------------------
(* Sequences.                                                               *)

\* The n-th of a set of places.
Nth(places, n) == CHOOSE i \in places : Cardinality({j \in places : j <= i}) = n

\* The elements of a sequence at these places, in their order (filter).
Keep(seq, places) == [n \in 1..Cardinality(places) |-> seq[Nth(places, n)]]

-----------------------------------------------------------------------------
(* Suggestions.                                                             *)

IsBlank(text) == \A i \in DOMAIN text : text[i] = Space
Trailing(text) == text # <<>> /\ text[Len(text)] = Space

\* The words of a text: split at runs of blanks.
Starts(text) == {i \in DOMAIN text : text[i] # Space /\ (i = 1 \/ text[i - 1] = Space)}
WordFrom(text, i) ==
  LET ends == {j \in i..Len(text) : text[j] = Space}
  IN  SubSeq(text, i, IF ends = {} THEN Len(text)
                      ELSE (CHOOSE j \in ends : \A h \in ends : j <= h) - 1)
Words(text) ==
  LET starts == Starts(text)
  IN  [n \in 1..Cardinality(starts) |-> WordFrom(text, Nth(starts, n))]

BugMatches(c, prefix) == TRUE

\* targetMatches(): by the chat's id or by its display name.
Matches(c, prefix) ==
  \/ IsPrefix(prefix, c)
  \/ NameOf[c] # <<>> /\ IsPrefix(prefix, NameOf[c])

Text(command, transport, chat) == <<"/", command, Space>> \o transport \o <<Space>> \o chat

CommandSuggestions(word) ==
  LET matching == {i \in DOMAIN Commands : IsPrefix(word, <<"/", Commands[i]>>)}
      value(c) == IF c = "q" THEN <<"/", c>> ELSE <<"/", c, Space>>
  IN  [n \in 1..Cardinality(matching) |-> value(Commands[Nth(matching, n)])]

TransportSuggestions(command, names, prefix) ==
  LET matching == SetToSeq({t \in names : IsPrefix(prefix, <<t>>)})
  IN  [n \in DOMAIN matching |-> Text(command, <<matching[n]>>, <<>>)]

\* One transport's chats or invites.
ChatSuggestions(command, transport, known, prefix) ==
  LET matching == Keep(known, {i \in DOMAIN known : Matches(known[i], prefix)})
  IN  [n \in DOMAIN matching |-> Text(command, transport, matching[n])]

IsTransportName(word) == \E t \in TransportNames : word = <<t>>

\* Bound: the first chat is the current target.
HasTarget(known) == known # <<>>

TransportsWith(command, known, invited) ==
  {t \in TransportNames : \/ command = "t"
                          \/ command = "l" /\ known # <<>>
                          \/ command = "r" /\ invited # {}}

\* The transports are offered while the second word is typed, and of /target
\* also before it.
ArgumentSuggestions(command, transport, prefix, typingTransport, known, invited) ==
  IF typingTransport \/ (command = "t" /\ transport = <<>>)
  THEN TransportSuggestions(command, TransportsWith(command, known, invited), transport)
  ELSE IF IsTransportName(transport)
  THEN ChatSuggestions(command, transport,
                       IF command = "r" THEN SetToSeq(invited) ELSE known, prefix)
  ELSE IF command = "l" /\ HasTarget(known) THEN <<Text("l", <<"m">>, Head(known))>> ELSE <<>>

\* suggestionsFor(), with the chats and the invites that are known.
SuggestionsFor(text, known, invited) ==
  LET words == Words(text)
      word(n) == IF n <= Len(words) THEN words[n] ELSE <<>>
  IN  IF text = <<>> \/ text[1] # "/" THEN <<>>
      ELSE IF Len(words) = 1 /\ ~Trailing(text) THEN CommandSuggestions(words[1])
      ELSE IF \E c \in {"t", "r", "l"} : words[1] = <<"/", c>>
      THEN ArgumentSuggestions(words[1][2], word(2), word(3), Len(words) = 2 /\ ~Trailing(text),
                               known, invited)
      ELSE <<>>

\* render(): the suggestions are computed anew, the highlight stays in range,
\* and all of it is drawn.
RenderInput(highlight) ==
  /\ suggestions' = IF showSuggestions' THEN SuggestionsFor(buffer', chats', invites') ELSE <<>>
  /\ selected' = IF highlight < Len(suggestions') THEN highlight ELSE 0
  /\ screen' = [text |-> buffer', cursor |-> cursor', list |-> suggestions',
                selected |-> selected']

-----------------------------------------------------------------------------

PromptInit ==
  /\ chats \in {<<>>} \cup {<<c>> : c \in Ids}
  /\ invites \in SUBSET Invites
  /\ buffer = <<>>
  /\ cursor = 0
  /\ suggestions = <<>>
  /\ selected = 0
  /\ showSuggestions = TRUE
  /\ screen = [text |-> <<>>, cursor |-> 0, list |-> <<>>, selected |-> 0]
  /\ flight = 0
  /\ chosen = <<>>
  /\ streak = 0

NotCompleting ==
  /\ chosen' = <<>>
  /\ streak' = 0

-----------------------------------------------------------------------------
(* Keys that edit.                                                          *)

Edit(text, at) ==
  /\ buffer' = text
  /\ cursor' = at
  /\ showSuggestions' = TRUE
  /\ UNCHANGED <<flight, knowledge>>
  /\ RenderInput(0)
  /\ NotCompleting

\* normalizePastedText(): a run of newlines is a blank.
Normalized(chunk) ==
  LET kept == {i \in DOMAIN chunk : ~(chunk[i] = Newline /\ i > 1 /\ chunk[i - 1] = Newline)}
      line == Keep(chunk, kept)
  IN  [n \in DOMAIN line |-> IF line[n] = Newline THEN Space ELSE line[n]]

\* A printable key, or a chunk of several characters.
Insert(text) ==
  /\ Len(buffer) + Len(text) <= MaxTyped
  /\ Edit(SubSeq(buffer, 1, cursor) \o text \o SubSeq(buffer, cursor + 1, Len(buffer)),
          cursor + Len(text))

Cut(from, to) == Edit(SubSeq(buffer, 1, from) \o SubSeq(buffer, to + 1, Len(buffer)), from)

\* previousWordStart()
PreviousWordStart ==
  LET before == {i \in Starts(buffer) : i <= cursor}
  IN  IF before = {} THEN 0 ELSE (CHOOSE i \in before : \A j \in before : j <= i) - 1

\* Delete or Ctrl+D, backspace, Ctrl+U, Ctrl+K and Ctrl+W.
Erase ==
  \/ cursor < Len(buffer) /\ Cut(cursor, cursor + 1)
  \/ cursor > 0 /\ Cut(cursor - 1, cursor)
  \/ Cut(0, cursor)
  \/ Cut(cursor, Len(buffer))
  \/ Cut(PreviousWordStart, cursor)

\* Home, End, left, right and Ctrl+L.
Move(to) ==
  /\ to \in {0, Len(buffer), cursor - 1, cursor, cursor + 1} \cap 0..Len(buffer)
  /\ cursor' = to
  /\ UNCHANGED <<buffer, showSuggestions, flight, knowledge>>
  /\ RenderInput(selected)
  /\ NotCompleting

\* Up and down.
Browse(by) ==
  /\ suggestions # <<>>
  /\ UNCHANGED <<buffer, cursor, showSuggestions, flight, knowledge>>
  /\ RenderInput((selected + by + Len(suggestions)) % Len(suggestions))
  /\ NotCompleting

BugEscape ==
  /\ showSuggestions' = FALSE
  /\ selected' = 0
  /\ NotCompleting
  /\ UNCHANGED <<buffer, cursor, suggestions, screen, flight, knowledge>>

Escape ==
  /\ showSuggestions' = FALSE
  /\ UNCHANGED <<buffer, cursor, flight, knowledge>>
  /\ RenderInput(0)
  /\ NotCompleting

-----------------------------------------------------------------------------
(* What the session knows.                                                  *)

Learns ==
  /\ \E new \in {<<>>} \cup {<<c>> : c \in Ids \ ToSet(chats)} : chats' = chats \o new
  /\ invites' \in SUBSET Invites

\* An event, which redraws the prompt.
Event ==
  /\ Learns
  /\ UNCHANGED <<buffer, cursor, showSuggestions, flight>>
  /\ RenderInput(selected)
  /\ NotCompleting

\* A list that a line under way waited for: nothing is redrawn.
ListReturns ==
  /\ flight > 0
  /\ Learns
  /\ NotCompleting
  /\ UNCHANGED <<promptVars, flight>>

-----------------------------------------------------------------------------
(* Enter.                                                                   *)

BugCompletes == suggestions # <<>>
Completes == suggestions # <<>> /\ suggestions[selected + 1] # buffer

\* Enter takes the highlighted suggestion, if it is not what is typed.
Complete ==
  /\ Completes
  /\ buffer' = suggestions[selected + 1]
  /\ cursor' = Len(buffer')
  /\ showSuggestions' = TRUE
  /\ UNCHANGED <<flight, knowledge>>
  /\ RenderInput(0)
  /\ chosen' = IF Trailing(buffer') THEN <<>> ELSE buffer'
  /\ streak' = streak + 1

IsCommand(text, command) == Words(text) # <<>> /\ Words(text)[1] = <<"/", command>>

\* The line makes a call and waits for it: text for the target, and an accept,
\* a reject or a leave of a chat.
Calls(text) ==
  LET words == Words(text)
      explicit == Len(words) > 2 /\ IsTransportName(words[2])
  IN  /\ words # <<>>
      /\ \/ words[1][1] # "/" /\ HasTarget(chats)
         \/ IsCommand(text, "r") /\ explicit
         \/ IsCommand(text, "l") /\ (explicit \/ HasTarget(chats))

\* The line is over, and whatever the buffer holds by now is cleared.
LineEnds ==
  /\ buffer' = <<>>
  /\ cursor' = 0
  /\ showSuggestions' = TRUE
  /\ RenderInput(selected)

\* Otherwise Enter submits what is typed.  /quit ends the session.
Submit ==
  /\ ~Completes
  /\ ~IsCommand(buffer, "q")
  /\ IF Calls(buffer)
     THEN /\ flight < MaxFlight
          /\ flight' = flight + 1
          /\ screen' = CleanScreen
          /\ UNCHANGED <<buffer, cursor, suggestions, selected, showSuggestions, knowledge>>
     ELSE /\ IF IsBlank(buffer) THEN UNCHANGED knowledge ELSE Learns
          /\ LineEnds
          /\ UNCHANGED flight
  /\ NotCompleting

\* A call has come back, in any order.
Returns ==
  /\ flight > 0
  /\ flight' = flight - 1
  /\ Learns
  /\ LineEnds
  /\ NotCompleting

-----------------------------------------------------------------------------

PromptNext ==
  \/ \E u \in Keys : Insert(<<u>>)
  \/ \E chunk \in Pastes : Insert(Normalized(chunk))
  \/ Erase
  \/ \E to \in 0..Len(buffer) : Move(to)
  \/ \E by \in {-1, 1} : Browse(by)
  \/ Escape
  \/ Event
  \/ ListReturns
  \/ Complete
  \/ Submit
  \/ Returns

PromptSpec == PromptInit /\ [][PromptNext]_inputVars

-----------------------------------------------------------------------------
(* Properties.                                                              *)

\* Enter takes what is on the screen (chat-input-editing-qol.md:31): the
\* suggestion highlighted there, otherwise the text there.  Keys, events and
\* answers come between the drawing and the key.
EnterTakesShown ==
  [][screen # CleanScreen =>
       LET highlighted == screen.list # <<>> /\ screen.list[screen.selected + 1] # screen.text
       IN  /\ Complete => highlighted /\ buffer' = screen.list[screen.selected + 1]
           /\ Submit => ~highlighted /\ buffer = screen.text]_inputVars

\* Pressing Enter again and again ends in a submission, whatever was typed:
\* every completion is followed by a longer one or by an earlier chat or invite.
EnterSettles == streak <= 2 + Cardinality(Ids \cup Invites)

\* What Enter completed is what the next Enter submits, unless another known
\* chat begins with that chat's id: then it may be replaced by the other
\* chat, and only Escape gets it submitted.
Ambiguous(text) ==
  LET id == Last(Words(text))
  IN  \E c \in (ToSet(chats) \cup invites) \ {id} : IsPrefix(id, c) \/ IsPrefix(id, NameOf[c])

CompletedIsSubmitted == [][Complete => chosen = <<>> \/ Ambiguous(chosen)]_inputVars

-----------------------------------------------------------------------------
(* The inductive strengthening the last two rest on.                      *)

WithArguments == {"t", "r", "l"}

\* What suggestionsFor() may offer.
Offered ==
  {text \in Seq(Units) :
     \/ text = <<"/", "q">>
     \/ \E c \in WithArguments :
          \/ text = <<"/", c, Space>>
          \/ \E t \in TransportNames, id \in {<<>>} \cup Ids \cup Invites :
               text = Text(c, <<t>>, id)}

OfferedInv == \A n \in DOMAIN suggestions : suggestions[n] \in Offered

\* After Enter has completed, the buffer is a suggestion that was offered, and
\* the first of those made for it is highlighted.
FreshInv ==
  /\ streak > 0 =>
       /\ buffer \in Offered
       /\ suggestions = SuggestionsFor(buffer, chats, invites)
       /\ selected = 0
  /\ chosen # <<>> => streak > 0 /\ chosen = buffer /\ ~Trailing(buffer)

\* The chats or invites that a command's argument is looked up in, in order.
LookedUp(command) == IF command = "r" THEN SetToSeq(invites) ELSE chats

\* How often Enter can have completed: once and twice to get before a chat, and
\* from a chat to an earlier one.
StreakInv ==
  streak > 0 =>
    /\ buffer = <<"/", "q">> => streak = 1
    /\ \A c \in WithArguments : buffer = <<"/", c, Space>> => streak = 1
    /\ \A c \in WithArguments, t \in TransportNames :
         /\ buffer = Text(c, <<t>>, <<>>) => streak <= 2
         /\ \A id \in Ids \cup Invites :
              buffer = Text(c, <<t>>, id) =>
                /\ id \notin ToSet(LookedUp(c)) => streak = 1
                /\ \A p \in DOMAIN LookedUp(c) :
                     LookedUp(c)[p] = id => streak + p <= 3 + Len(LookedUp(c))

PromptInv == PromptTypeOK /\ OfferedInv /\ FreshInv /\ StreakInv
=============================================================================
