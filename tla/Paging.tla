------------------------------- MODULE Paging -------------------------------
(***************************************************************************)
(* The history of one chat: chat.Service.ListMessages and the cursor of    *)
(* GET /chats/:chat_id/messages.  A member asks for the newest page, then  *)
(* for what is before it, until has_more is false, while messages go on    *)
(* being sent.                                                             *)
(*                                                                         *)
(* A message has the time at which its transaction began, so messages may  *)
(* share a time, and one may appear after newer ones (Messages).  UUIDs    *)
(* are ordered, and have nothing to do with the order of anything else.    *)
(***************************************************************************)
EXTENDS Integers, FiniteSets, Sequences, SequencesExt

CONSTANTS
  Ids,           \* messages.id
  Users,
  Members,       \* the users of the chat
  Limits,        \* the values of the parameter limit
  DefaultLimit,  \* 30 in the code
  MaxLimit,      \* 100 in the code
  Second,        \* ticks of the clock of one second
  MaxTime        \* bound of the model: the last time of the clock

ASSUME PagingAssumption ==
  /\ Ids \subseteq Int
  /\ Members \subseteq Users
  /\ Limits \subseteq Int
  /\ MaxLimit \in Nat /\ DefaultLimit \in 1..MaxLimit
  /\ Second \in Nat \ {0}
  /\ MaxTime \in Nat

VARIABLES
  clock,
  drafts,    \* rows of messages that are inserted and not committed
  messages,  \* the committed rows of the chat
  client,    \* where the client is
  request,   \* who it is, and the parameters of its request
  page,      \* the messages it was answered with last
  given,     \* history: the messages it was answered with
  cuts,      \* history: the last messages of the pages it went on from
  atStart    \* history: the committed rows when the first page was read

log   == <<clock, drafts, messages>>
pages == <<page, given, cuts, atStart>>
vars  == <<clock, drafts, messages, client, request, page, given, cuts, atStart>>

Time == 0..MaxTime
None == -1       \* no parameter before

Row == [id : Ids, sentAt : Time]

TypeOK ==
  /\ clock \in Time
  /\ drafts \subseteq Row /\ messages \subseteq Row
  /\ client \in {"idle", "asking", "more", "done", "forbidden"}
  /\ request \in [user : Users, limit : Limits \cup {0}, before : Time \cup {None}]
  /\ page \in Seq(Row) /\ Len(page) <= MaxLimit
  /\ client = "more" => page # <<>>
  /\ cuts \subseteq given /\ given \subseteq messages /\ atStart \subseteq messages

Init ==
  /\ clock = 0
  /\ drafts = {} /\ messages = {}
  /\ client = "idle"
  /\ request \in [user : Users, limit : {0}, before : {None}]
  /\ page = <<>>
  /\ given = {} /\ cuts = {} /\ atStart = {}

-----------------------------------------------------------------------------
(* Mutations.  Each is a definition below with a plausible mistake in it;  *)
(* PROJECT.json names the property that fails when it takes its place.     *)

(* AND sent_at <= $2                                                       *)
BeforeOrAt(row, t) == t = None \/ row.sentAt <= t

(* ORDER BY sent_at DESC, id                                               *)
NewerById(x, y) == x.id > y.id

(* if limit == 0                                                           *)
PageSizeAny(limit) == IF limit = 0 THEN DefaultLimit ELSE limit

(* LIMIT limit                                                             *)
FetchLimitShort(limit) == limit

-----------------------------------------------------------------------------
(* The default and the clamp of the limit.                                 *)
PageSize(limit) ==
  IF limit <= 0 THEN DefaultLimit
  ELSE IF limit > MaxLimit THEN MaxLimit ELSE limit

(* One more than the page tells whether there are more.                    *)
FetchLimit(size) == size + 1

Before(row, t) == t = None \/ row.sentAt < t

(* ORDER BY sent_at DESC, id DESC                                          *)
Newer(x, y) == x.sentAt > y.sentAt \/ (x.sentAt = y.sentAt /\ x.id > y.id)

Limit(rows, n) == SubSeq(rows, 1, IF Len(rows) < n THEN Len(rows) ELSE n)

(* The query with LIMIT n: rows in their order, and those that are left    *)
(* out are the last.                                                       *)
Selects(rows, found, n) ==
  /\ \A i, j \in DOMAIN rows : i < j => Newer(rows[i], rows[j])
  /\ \A row \in found \ ToSet(rows) :
       Len(rows) = n /\ \A kept \in ToSet(rows) : Newer(kept, row)

(* next_before, which the handler formats without fractions of a second.   *)
NextBefore(rows) == (Last(rows).sentAt \div Second) * Second

-----------------------------------------------------------------------------
(* The client: each page is asked for with the next_before of the last one *)
(* or with the sent_at of its last message, which has the full precision.  *)
FirstPage(limit) ==
  /\ client = "idle"
  /\ request' = [request EXCEPT !.limit = limit]
  /\ client' = "asking"
  /\ UNCHANGED <<log, pages>>

NextPage(limit) ==
  /\ client = "more"
  /\ \E before \in {NextBefore(page), Last(page).sentAt} :
       request' = [request EXCEPT !.limit = limit, !.before = before]
  /\ client' = "asking"
  /\ cuts' = cuts \cup {Last(page)}
  /\ UNCHANGED <<log, page, given, atStart>>

(* ListMessages answers a member with a page and has_more.                 *)
ListMessages ==
  LET size  == PageSize(request.limit)
      found == {row \in messages : Before(row, request.before)}
  IN  /\ client = "asking" /\ request.user \in Members
      /\ \E fetched \in BoundedSeq(found, FetchLimit(size)) :
           /\ Selects(fetched, found, FetchLimit(size))
           /\ page' = Limit(fetched, size)
           /\ client' = IF Len(fetched) > size THEN "more" ELSE "done"
      /\ given' = given \cup ToSet(page')
      /\ atStart' = IF request.before = None THEN messages ELSE atStart
      /\ UNCHANGED <<log, request, cuts>>

Forbid ==
  /\ client = "asking" /\ request.user \notin Members
  /\ client' = "forbidden"
  /\ UNCHANGED <<log, request, pages>>

-----------------------------------------------------------------------------
(* SendMessage, seen from here (Messages has all of it).                   *)
InsertMessage(id) ==
  /\ id \notin {row.id : row \in drafts \cup messages}
  /\ drafts' = drafts \cup {[id |-> id, sentAt |-> clock]}
  /\ UNCHANGED <<clock, messages, client, request, pages>>

CommitMessage(row) ==
  /\ row \in drafts
  /\ drafts' = drafts \ {row}
  /\ messages' = messages \cup {row}
  /\ UNCHANGED <<clock, client, request, pages>>

Rollback(row) ==
  /\ row \in drafts
  /\ drafts' = drafts \ {row}
  /\ UNCHANGED <<clock, messages, client, request, pages>>

Tick ==
  /\ clock < MaxTime
  /\ clock' = clock + 1
  /\ UNCHANGED <<drafts, messages, client, request, pages>>

Next ==
  \/ Tick \/ ListMessages \/ Forbid
  \/ \E limit \in Limits : FirstPage(limit) \/ NextPage(limit)
  \/ \E id \in Ids : InsertMessage(id)
  \/ \E row \in drafts : CommitMessage(row) \/ Rollback(row)

Spec == Init /\ [][Next]_vars

(* A client that has begun goes on, and the server answers.                *)
FairSpec ==
  /\ Spec
  /\ WF_vars(ListMessages \/ Forbid)
  /\ WF_vars(\E limit \in Limits : NextPage(limit))

-----------------------------------------------------------------------------
(* The pages are one descent: every message of a page comes after those of *)
(* the page before it and those of earlier pages, so that none is given    *)
(* twice, whatever is committed between two requests (the ORDER BY and the *)
(* cursor of ListMessages agree).                                          *)
Descending ==
  [][client = "asking" /\ client' \in {"more", "done"} =>
       /\ \A i, j \in DOMAIN page' : i < j => page'[j].sentAt <= page'[i].sentAt
       /\ \A row \in ToSet(page'), earlier \in given :
            row.sentAt < earlier.sentAt]_vars

(* When has_more is false, the client has been given every message that    *)
(* was there when it began, but those that fell to the cursor: of the same *)
(* second as the last message of a page, and not newer than it (has_more   *)
(* and the next_before of the handler).                                    *)
SkipsOnlyAtCuts ==
  client = "done" =>
    \A row \in atStart \ given :
      \E cut \in cuts : /\ row.sentAt \div Second = cut.sentAt \div Second
                        /\ Newer(cut, row)

(* A client that goes on asking comes to the end: the cursor goes back at  *)
(* every page, though it is cut to seconds and times are shared.           *)
PagingEnds == client = "more" ~> client = "done"
=============================================================================
