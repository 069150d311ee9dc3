----------------------------- MODULE Conversation -----------------------------
(***************************************************************************)
(* A conversation in the browser: the page that shows and continues it     *)
(* (web pages/SessionHistoryPage.tsx, chat/Composer.tsx,                   *)
(* realtime/useSessionStream.ts, api.ts, auth.tsx), and what of the API it *)
(* talks to that SessionHub does not model: the message and title routes   *)
(* of app.ts, the names of conversations (services/session-titles.ts) and  *)
(* the sign-in (auth.ts, rate-limit.ts).                                   *)
(*                                                                         *)
(* The transcript is the texts of the user's messages, one agent's session *)
(* on one gateway; the hub is the transcript it read last and whether it   *)
(* is to read again.  The messages of a detail are positions in it; which  *)
(* of them come as a string, and which as parts, is the gateway's.  The    *)
(* local echoes are a bag: their order is not told apart.  A name is the   *)
(* text it derives from, or one typed by hand.                             *)
(***************************************************************************)
EXTENDS Integers, Sequences, FiniteSets

CONSTANTS
  Tabs,
  Texts,        \* what is sent
  Typed,        \* those of them sent from the page
  Parted,       \* those of them the gateway may give back as parts
  Nameless,     \* texts without a line to derive a name from
  Names,        \* names typed by hand
  Window,       \* messages a detail shows (80)
  MaxMessages,  \* bound on the messages
  MaxParts,     \* bound on those that come as parts
  MaxRenames,   \* bound on the renames
  MaxLogins,    \* loginMaxAttempts
  MaxFailures   \* bound on failed calls, broken streams and restarts

ASSUME ConversationAssumption ==
  /\ Nameless \subseteq Texts /\ Typed \subseteq Texts /\ Parted \subseteq Texts
  /\ Window \in Nat \ {0} /\ MaxMessages \in Nat /\ MaxParts \in Nat
  /\ MaxRenames \in Nat /\ MaxLogins \in Nat \ {0} /\ MaxFailures \in Nat

VARIABLES
  transcript,  \* the gateway's
  parts,       \* the messages of it whose content is an array of parts
  cached,      \* messages of it in the hub's detail, or NoHistory, or HistoryError
  due,         \* the hub will read it
  titles,      \* SessionTitleStore
  file,        \* its file
  signed,      \* the server knows the browser's token
  hits,        \* sign-ins counted in this window
  stream,      \* a tab's stream is open
  page,        \* the page's detail: messages, name
  pending,     \* local echoes
  post,        \* the POST of the composer
  renamed,     \* the name shown in place of the detail's
  put,         \* the PUT of a name
  mine,        \* history: texts sent on this visit to the page, failures aside
  renames, failures

serverVars == <<titles, file, signed, hits>>
hubVars == <<transcript, parts, cached, due>>
pageVars == <<stream, page, pending, post, renamed, put, mine>>
conversationVars == <<serverVars, hubVars, pageVars, renames, failures>>

NoHistory == -1      \* no detail
HistoryError == -2   \* a detail with historyError and no history
NoName == "untitled"   \* fallbackTitleFromKey(), or no title in the store
NoPost == [text |-> NoName, at |-> "idle"]   \* no POST
NoPut == [name |-> NoName, old |-> NoName, at |-> "idle"]   \* no PUT
NoDetail == [count |-> NoHistory, name |-> NoName]

Untitled == [name |-> NoName, source |-> "none"]
Title == [name : Texts, source : {"auto"}] \cup [name : Names, source : {"manual"}]
           \cup {Untitled}
Shows == Texts \cup Names \cup {NoName}

Echo == [text : Texts, sending : BOOLEAN]
NoEchoes == [e \in Echo |-> 0]

ConversationTypeOK ==
  /\ transcript \in Seq(Texts) /\ Len(transcript) <= MaxMessages
  /\ parts \subseteq 1..Len(transcript)
  /\ cached \in NoHistory..Len(transcript) \cup {HistoryError} /\ due \in BOOLEAN
  /\ titles \in Title /\ file \in Title
  /\ signed \in BOOLEAN /\ hits \in 0..MaxLogins
  /\ stream \in [Tabs -> BOOLEAN]
  /\ page \in [Tabs -> [count : NoHistory..MaxMessages \cup {HistoryError}, name : Shows]]
  /\ pending \in [Tabs -> [Echo -> Nat]]
  /\ post \in [Tabs -> [text : Shows, at : {"idle", "asked", "ok", "failed"}]]
  /\ renamed \in [Tabs -> Shows]
  /\ put \in [Tabs -> [name : Shows, old : Shows, at : {"idle", "asked", "ok", "failed"}]]
  /\ mine \in [Tabs -> SUBSET Texts]
  /\ renames \in 0..MaxRenames /\ failures \in 0..MaxFailures

ConversationInit ==
  /\ transcript = << >> /\ parts = {} /\ cached = NoHistory /\ due = FALSE
  /\ titles = Untitled /\ file = Untitled /\ signed = TRUE /\ hits = 0
  /\ stream = [c \in Tabs |-> FALSE] /\ page = [c \in Tabs |-> NoDetail]
  /\ pending = [c \in Tabs |-> NoEchoes] /\ post = [c \in Tabs |-> NoPost]
  /\ renamed = [c \in Tabs |-> NoName] /\ put = [c \in Tabs |-> NoPut]
  /\ mine = [c \in Tabs |-> {}] /\ renames = 0 /\ failures = 0

Failure == failures < MaxFailures /\ failures' = failures + 1

\* Within the bound, beside the messages under way.
Room == Len(transcript) + Cardinality({c \in Tabs : post[c].at = "asked"}) < MaxMessages

(***************************************************************************)
(* Names                                                                   *)
(***************************************************************************)
\* set() and persist(), which only logs a failure
Store(title) ==
  /\ titles' = title
  /\ \/ file' = title /\ UNCHANGED failures
     \/ Failure /\ UNCHANGED file

\* deriveTitleFromMessage(): a line that is no fence, and of which something is
\* left without its bullet or heading.
HasLine(text) == text \notin Nameless

\* Slip: every message names the conversation.
FirstMessageAlways(text) == HasLine(text)
\* setFromFirstMessage() has something to store.
NamesIt(text) == titles = Untitled /\ HasLine(text)

\* The messages of a detail: the last of the first count.
Messages(count) == {i \in 1..count : i > count - Window}

\* deriveTitleFromHistory()
Derived(count) ==
  LET named == {i \in Messages(count) : HasLine(transcript[i])}
  IN IF named = {} THEN NoName
     ELSE transcript[CHOOSE i \in named : \A j \in named : i <= j]

\* titleForDetail() of the hub's detail
TitleForDetail(count) == IF titles # Untitled THEN titles.name ELSE Derived(count)
Backfill(count) ==
  IF titles = Untitled /\ Derived(count) # NoName
    THEN Store([name |-> Derived(count), source |-> "auto"])
    ELSE UNCHANGED <<titles, file, failures>>

(***************************************************************************)
(* The page                                                                *)
(***************************************************************************)
\* The texts are compared as strings: parts are no echo's text.
Occurs(text, messages) == \E i \in messages \ parts : transcript[i] = text

\* Slip: an echo stays until its POST is answered, at least.
RetireSent(echoes, messages) ==
  [e \in Echo |-> IF ~e.sending /\ Occurs(e.text, messages) THEN 0 ELSE echoes[e]]
\* The effect on detail and pending: each message of the detail retires one
\* echo of its text, and the effect runs again for the shorter list, with the
\* same messages.
Retire(echoes, messages) ==
  [e \in Echo |-> IF Occurs(e.text, messages) THEN 0 ELSE echoes[e]]

\* The effect on renamed: the detail agrees.
Unshadow(name, d) == IF name = d.name THEN NoName ELSE name

\* How often a text is on screen: among the messages, and as echoes.
CountOf(text, messages) == Cardinality({i \in messages : transcript[i] = text})
Echoes(echoes, text) ==
  echoes[[text |-> text, sending |-> TRUE]] + echoes[[text |-> text, sending |-> FALSE]]
Rendered(c, text) == CountOf(text, Messages(page[c].count)) + Echoes(pending[c], text)

\* The name on screen
NameOn(c) == IF renamed[c] # NoName THEN renamed[c] ELSE page[c].name

Echoed(echoes, text) ==
  [e \in Echo |-> IF e.text = text /\ e.sending THEN echoes[e] + 1 ELSE echoes[e]]

\* Composer.submit() and sendMessage(): the echo comes first.
Send(c, text) ==
  /\ post[c].at = "idle" /\ Room
  /\ post' = [post EXCEPT ![c] = [text |-> text, at |-> "asked"]]
  /\ pending' = [pending EXCEPT ![c] =
       Retire(Echoed(@, text), Messages(page[c].count))]
  /\ mine' = [mine EXCEPT ![c] = @ \cup {text}]
  /\ UNCHANGED <<serverVars, hubVars, stream, page, renamed, put, renames, failures>>

Reply(c, at) == post' = [post EXCEPT ![c].at = at]

\* POST: an unknown token is refused.
Refused(c) ==
  /\ post[c].at = "asked" /\ ~signed /\ Reply(c, "failed")
  /\ UNCHANGED <<serverVars, hubVars, stream, page, pending, renamed, put, mine,
                 renames, failures>>

\* The conversation gets a name before the gateway gets the message ...
Named(c) ==
  IF NamesIt(post[c].text)
    THEN titles' = [name |-> post[c].text, source |-> "auto"] /\ file' = titles'
    ELSE UNCHANGED <<titles, file>>

\* Slip: the event of the gateway will do.
LeftToEvent == FALSE
\* The hub's refreshNow()
ReadsAgain == TRUE

\* SessionService.sendMessage(): the gateway takes the message, in the shape it
\* gives it back in, and an audit row is written.
SendMessage(text) ==
  /\ Len(transcript) < MaxMessages /\ transcript' = Append(transcript, text)
  /\ \/ UNCHANGED parts
     \/ /\ text \in Parted /\ Cardinality(parts) < MaxParts
        /\ parts' = parts \cup {Len(transcript) + 1}

\* ... and when the gateway has taken it the hub reads the transcript again.
Deliver(c) ==
  /\ post[c].at = "asked" /\ signed /\ Named(c)
  /\ SendMessage(post[c].text) /\ Reply(c, "ok") /\ due' = (due \/ ReadsAgain)
  /\ UNCHANGED <<cached, signed, hits, stream, page, pending, renamed, put, mine,
                 renames, failures>>

\* The gateway fails, perhaps after it took the message, or the row does.
DeliverFails(c) ==
  /\ post[c].at = "asked" /\ signed /\ Failure /\ Named(c) /\ Reply(c, "failed")
  /\ UNCHANGED <<transcript, parts>> \/ SendMessage(post[c].text)
  /\ UNCHANGED <<cached, due, signed, hits, stream, page, pending, renamed, put, mine,
                 renames>>

\* Slip: a message that was not sent keeps its echo.
UnsentStays(echoes) == echoes
Unsent(echoes) == [e \in Echo |-> IF e.sending THEN 0 ELSE echoes[e]]

\* The echo of a message that was sent stays until it is in a detail.
Settled(echoes) == [e \in Echo |-> IF e.sending THEN 0 ELSE Echoes(echoes, e.text)]

\* The answer: the composer is free, and the echo of a failure is taken back.
Answer(c) ==
  /\ post[c].at \in {"ok", "failed"}
  /\ post' = [post EXCEPT ![c] = NoPost]
  /\ IF post[c].at = "ok"
       THEN pending' = [pending EXCEPT ![c] = Settled(@)] /\ UNCHANGED mine
       ELSE /\ pending' = [pending EXCEPT ![c] = Unsent(@)]
            /\ mine' = [mine EXCEPT ![c] = @ \ {post[c].text}]
  /\ UNCHANGED <<serverVars, hubVars, stream, page, renamed, put, renames, failures>>

RenameLocally(c, name) == renamed' = [renamed EXCEPT ![c] = Unshadow(name, page[c])]

\* SessionTitle.commit() shows the new name at once.
Commit(c, name) ==
  /\ put[c].at = "idle" /\ name # NameOn(c)
  /\ renames < MaxRenames /\ renames' = renames + 1
  /\ put' = [put EXCEPT ![c] = [name |-> name, old |-> NameOn(c), at |-> "asked"]]
  /\ RenameLocally(c, name)
  /\ UNCHANGED <<serverVars, hubVars, stream, page, pending, post, mine, failures>>

\* PUT: an override, or a refusal.
Rename(c) ==
  /\ put[c].at = "asked"
  /\ IF signed
       THEN /\ Store([name |-> put[c].name, source |-> "manual"])
            /\ put' = [put EXCEPT ![c].at = "ok"]
       ELSE put' = [put EXCEPT ![c].at = "failed"] /\ UNCHANGED <<titles, file, failures>>
  /\ UNCHANGED <<signed, hits, hubVars, stream, page, pending, post, renamed, mine,
                 renames>>

RenameAnswer(c) ==
  /\ put[c].at \in {"ok", "failed"} /\ put' = [put EXCEPT ![c] = NoPut]
  /\ RenameLocally(c, IF put[c].at = "ok" THEN put[c].name ELSE put[c].old)
  /\ UNCHANGED <<serverVars, hubVars, stream, page, pending, post, mine, renames, failures>>

\* PUT of an empty title, which the page never sends, drops the name.
Reset ==
  /\ signed /\ titles # Untitled /\ renames < MaxRenames /\ renames' = renames + 1
  /\ Store(Untitled)
  /\ UNCHANGED <<signed, hits, hubVars, pageVars>>

\* The page goes, and comes again with nothing.
Gone(c) ==
  /\ page' = [page EXCEPT ![c] = NoDetail] /\ stream' = [stream EXCEPT ![c] = FALSE]
  /\ pending' = [pending EXCEPT ![c] = NoEchoes] /\ renamed' = [renamed EXCEPT ![c] = NoName]
  /\ mine' = [mine EXCEPT ![c] = {}]
  /\ UNCHANGED <<post, put>>

\* Another conversation is shown, and this one again.
Leave(c) == Gone(c) /\ UNCHANGED <<serverVars, hubVars, renames, failures>>

(***************************************************************************)
(* The stream and the hub                                                  *)
(***************************************************************************)
\* consumeSse() opens a stream, or opens it again.
OpenStream(c) ==
  /\ ~stream[c] /\ signed /\ stream' = [stream EXCEPT ![c] = TRUE]
  /\ due' = (due \/ cached = NoHistory)
  /\ UNCHANGED <<serverVars, transcript, parts, cached, page, pending, post, renamed, put,
                 mine, renames, failures>>

\* A frame that says something new: the page takes it over, and its effects
\* retire echoes and a name shown in place of it.
Frame(c) ==
  LET new == [count |-> cached, name |-> TitleForDetail(cached)]
  IN /\ stream[c] /\ cached # NoHistory /\ new # page[c]
     /\ Backfill(cached)
     /\ page' = [page EXCEPT ![c] = new]
     /\ pending' = [pending EXCEPT ![c] = Retire(@, Messages(cached))]
     /\ renamed' = [renamed EXCEPT ![c] = Unshadow(@, new)]
     /\ UNCHANGED <<signed, hits, hubVars, stream, post, put, mine, renames>>

Breaks(c) ==
  /\ stream[c] /\ Failure /\ stream' = [stream EXCEPT ![c] = FALSE]
  /\ UNCHANGED <<serverVars, hubVars, page, pending, post, renamed, put, mine, renames>>

\* The hub's read, which may fail.
HubReads ==
  /\ due /\ due' = FALSE
  /\ \/ cached' = Len(transcript) /\ UNCHANGED failures
     \/ cached' = HistoryError /\ Failure
  /\ UNCHANGED <<serverVars, transcript, parts, pageVars, renames>>

\* Another client of the gateway sends a message.
OtherSends(text) ==
  /\ Room /\ SendMessage(text)
  /\ UNCHANGED <<serverVars, cached, due, pageVars, renames, failures>>

\* An event of the gateway has the hub read again.
GatewayEvent ==
  /\ cached # Len(transcript) /\ ~due /\ due' = TRUE
  /\ UNCHANGED <<serverVars, transcript, parts, cached, pageVars, renames, failures>>

(***************************************************************************)
(* Sign-in                                                                 *)
(***************************************************************************)
\* logout() in a tab drops the token all tabs use, whether the server is told
\* or not.
Logout(c) ==
  /\ signed /\ Failure /\ signed' = FALSE /\ Gone(c)
  /\ UNCHANGED <<titles, file, hits, hubVars, renames>>

\* A session ends with its time.
SessionEnds ==
  /\ signed /\ Failure /\ signed' = FALSE
  /\ UNCHANGED <<titles, file, hits, hubVars, pageVars, renames>>

\* hitRateLimit() and login(), with or without the password
Login ==
  /\ ~signed /\ hits < MaxLogins /\ hits' = hits + 1
  /\ signed' \in BOOLEAN
  /\ UNCHANGED <<titles, file, hubVars, pageVars, renames, failures>>

WindowEnds ==
  /\ hits > 0 /\ hits' = 0
  /\ UNCHANGED <<titles, file, signed, hubVars, pageVars, renames, failures>>

\* The API starts again: SessionTitleStore loads its file, sessions, counts
\* and details are gone, and so is every call under way.
Restart ==
  /\ Failure /\ titles' = file /\ signed' = FALSE /\ hits' = 0
  /\ cached' = NoHistory /\ due' = FALSE /\ stream' = [c \in Tabs |-> FALSE]
  /\ post' = [c \in Tabs |-> IF post[c].at = "asked" THEN [post[c] EXCEPT !.at = "failed"]
                                                     ELSE post[c]]
  /\ put' = [c \in Tabs |-> IF put[c].at = "asked" THEN [put[c] EXCEPT !.at = "failed"]
                                                   ELSE put[c]]
  /\ UNCHANGED <<file, transcript, parts, page, pending, renamed, mine, renames>>

SendStep(c) == Refused(c) \/ Deliver(c) \/ DeliverFails(c) \/ Answer(c)
StreamStep(c) == OpenStream(c) \/ Frame(c)

ConversationNext ==
  \/ \E c \in Tabs :
       \/ \E text \in Typed : Send(c, text)
       \/ SendStep(c) \/ StreamStep(c)
       \/ \E name \in Names : Commit(c, name)
       \/ Rename(c) \/ RenameAnswer(c) \/ Leave(c) \/ Logout(c) \/ Breaks(c)
  \/ HubReads \/ GatewayEvent \/ Reset \/ \E text \in Texts : OtherSends(text)
  \/ SessionEnds \/ Login \/ WindowEnds \/ Restart

ConversationSpec == ConversationInit /\ [][ConversationNext]_conversationVars

(***************************************************************************)
(* Fairness: every call is answered or fails, a stream is opened again and *)
(* its loop goes on, and the hub reads what it set out to.  Nothing is     *)
(* assumed of events, of the user or of the sign-in.                       *)
(***************************************************************************)
ConversationFairSpec ==
  /\ ConversationSpec /\ WF_conversationVars(HubReads)
  /\ \A c \in Tabs : WF_conversationVars(SendStep(c)) /\ WF_conversationVars(StreamStep(c))

(***************************************************************************)
(* Properties                                                              *)
(***************************************************************************)
\* A message of the text came as a string and has left the window of what the
\* page shows.
PushedOut(c, text) == Occurs(text, 1..(page[c].count - Window))

\* Between echo and transcript, whatever fails, breaks or is answered late: a
\* text is on the screen no more often than it was sent, but for those of its
\* messages there that came as parts, which show beside their echoes; and one
\* that was sent from the page is there, as a message or as an echo, unless the
\* history could not be read or a message of the text has left the window.
ShownOnce ==
  \A c \in Tabs, text \in Texts :
    /\ Rendered(c, text) <= CountOf(text, 1..Len(transcript))
         + (IF post[c].text = text /\ post[c].at # "ok" THEN 1 ELSE 0)
         + CountOf(text, Messages(page[c].count) \cap parts)
    /\ text \in mine[c] /\ page[c].count # HistoryError /\ ~PushedOut(c, text)
         => Rendered(c, text) > 0

\* A message of the text came as parts, or is out of the window.
Unmatched(text) ==
  \E i \in 1..Len(transcript) :
    transcript[i] = text /\ (i \in parts \/ i <= Len(transcript) - Window)

\* Echoes do not stay: the transcript catches up with each while the operator
\* is signed in, unless the read for it failed, or a message of its text came
\* as parts or has left the window.
EchoesRetire ==
  \A c \in Tabs :
    []<>(\/ ~signed \/ cached = HistoryError
         \/ \A e \in Echo : pending[c][e] > 0 => Unmatched(e.text))

\* A name given by hand is not replaced by a derived one, whatever messages
\* and details come, unless it is reset or its file could not be written
\* before a restart.
ManualStays ==
  [][titles.source = "manual" =>
       titles'.source = "manual" \/ titles' = Untitled \/ titles' = file]_conversationVars
=============================================================================
