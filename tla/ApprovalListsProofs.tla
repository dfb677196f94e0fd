-------------------------- MODULE ApprovalListsProofs --------------------------
(***************************************************************************)
(* For any number of workspaces, requests, votes and answers on their way, *)
(* the lists of payment requests stay in their workspace, wait for nothing *)
(* that is not on its way, and agree with the server when nothing is.      *)
(***************************************************************************)
EXTENDS ApprovalLists, TLAPS

\* What a request of the tab is about, and whose requests its answer brings.
Fits(q) ==
  /\ q.kind \in {"vote", "send", "focus", "link", "switch"} => q.request \in Request
  /\ q.kind \in {"vote", "send", "link"} /\ q.status = "ok" => q.got[q.request] # 0
  /\ q.kind \in {"reload", "history", "more"}
       => \A r \in Request : q.got[r] # 0 => WorkspaceOf[r] = q.workspace

TypeInv ==
  /\ ListsAssumption
  /\ TypeOK
  /\ \A q \in inflight : Fits(q)
  /\ \A e \in stream : e[2] # 0

\* The newest version of r is on its way, or was lost or overtaken.
Announced(r) == <<r, version[r]>> \in stream \/ r \in behind

\* Nothing that is known or on its way is ahead of the server.
NotAhead ==
  /\ \A r \in Request : known[r] <= version[r]
  /\ \A e \in stream : e[2] <= version[e[1]]
  /\ \A q \in inflight, r \in Request : q.got[r] <= version[r]

\* A list that was answered is the server's, but for what came to the tab, or was
\* announced, since then.
Recalls(q) ==
  q.kind \in {"reload", "history", "more"} /\ q.status = "ok" =>
    \A r \in Of(q.workspace) :
      q.got[r] = version[r] \/ known[r] = version[r] \/ Announced(r)

Shown(v) == IF IsPending(v) THEN v ELSE 0

PendingInv ==
  loaded => \A r \in Of(current) :
              \/ known[r] = version[r] /\ pending[r] = Shown(version[r])
              \/ Announced(r)

\* The history holds closed requests; what has closed is in it, known and left to the
\* older pages, or announced.
HistoryInv ==
  /\ \A r \in Request : history[r] \in {0, Closed} /\ (history[r] = Closed => version[r] = Closed)
  /\ historyLoaded => \A r \in Of(current) :
       version[r] = Closed =>
         \/ history[r] = Closed \/ Announced(r)
         \/ r \notin Recent /\ historyNext /\ known[r] = Closed

CurrentInv == NotAhead /\ (\A q \in inflight : Recalls(q)) /\ PendingInv /\ HistoryInv
------------------------------------------------------------------------------
(* Versions, and the requests on their way.                                 *)

LEMMA Versions ==
  ASSUME ListsAssumption
  PROVE  /\ Version \subseteq Nat
         /\ 0 \in Version /\ 1 \in Version /\ Closed \in Version /\ Closed # 0
         /\ \A v \in Version : v <= Closed
         /\ \A v \in Version : IsPending(v) <=> v # 0 /\ v # Closed
         /\ \A v \in Version : Shown(v) \in Version
         /\ NoCopies \in Copies
BY DEF ListsAssumption, Version, Closed, IsPending, Shown, Copies, NoCopies

\* A version moves up.
LEMMA StepUp ==
  ASSUME TypeInv, NEW r \in Request, version[r] < Closed, NEW v \in Step(r)
  PROVE  v \in Version /\ v # 0 /\ version[r] < v
<1>1. version[r] \in Version
  BY DEF TypeInv, TypeOK, Copies
<1> QED
  BY <1>1 DEF TypeInv, ListsAssumption, Version, Closed, IsPending, Step

\* A request that was just sent.
Fresh(p) == p \in Calls /\ Fits(p) /\ p.status = "sent" /\ p.got = NoCopies

\* p is q, whoever is still there for its answer.
Same(p, q) ==
  /\ p.kind = q.kind /\ p.workspace = q.workspace /\ p.request = q.request
  /\ p.status = q.status /\ p.got = q.got

\* What is on its way after a step is what was, or was just sent.
From(S, T) == \A p \in T : Fresh(p) \/ (p \in Calls /\ \E q \in S : Same(p, q))

LEMMA AskedCall ==
  ASSUME TypeInv, NEW kind \in Kind, NEW w \in Workspace, NEW r \in Request \cup {None},
         kind \in {"vote", "send", "focus", "link", "switch"} => r \in Request
  PROVE  /\ Fresh(Call(kind, w, r))
         /\ Call(kind, w, r).kind = kind
         /\ Call(kind, w, r).workspace = w
<1>1. NoCopies \in Copies
  BY Versions DEF TypeInv
<1> QED
  BY <1>1 DEF Call, Calls, Fresh, Fits, NoCopies

LEMMA LeftCalls ==
  ASSUME inflight \subseteq Calls
  PROVE  /\ From(inflight, LeftBehind(inflight))
         /\ \A q \in inflight : \E p \in LeftBehind(inflight) : Same(p, q)
<1> DEFINE Left(q) == [q EXCEPT !.mine = @ /\ q.kind \notin {"vote", "focus"}]
<1>1. \A q \in inflight : Left(q) \in Calls /\ Same(Left(q), q)
  BY DEF Calls, Same
<1>2. LeftBehind(inflight) = {Left(q) : q \in inflight}
  BY DEF LeftBehind
<1> HIDE DEF Left
<1> QED
  BY <1>1, <1>2 DEF From

\* The requests of the tab keep their type when they are asked, left or answered.
LEMMA CallTypes ==
  ASSUME TypeInv, NEW S \in SUBSET inflight, From(S, inflight')
  PROVE  inflight' \subseteq Calls /\ \A p \in inflight' : Fits(p)
BY DEF From, Fresh, Same, Fits, TypeInv, TypeOK

LEMMA KeptCalls ==
  ASSUME TypeInv, NEW S \in SUBSET inflight
  PROVE  From(S, S)
BY DEF From, Same, TypeInv, TypeOK

LEMMA AskedCalls ==
  ASSUME TypeInv, NEW S \in SUBSET inflight, NEW T, NEW p, From(S, T), Fresh(p)
  PROVE  From(S, T \cup {p})
BY DEF From
------------------------------------------------------------------------------
(* What the operators of the tab do.                                        *)

LEMMA Learned ==
  ASSUME TypeInv, NEW rs \in SUBSET Request, NEW copies \in Copies, Learn(rs, copies)
  PROVE  /\ known' \in Copies
         /\ \A r \in Request :
              known'[r] = IF r \in rs /\ copies[r] > known[r] THEN copies[r] ELSE known[r]
         /\ behind \subseteq behind' /\ behind' \subseteq Request
         /\ \A r \in rs : known[r] > copies[r] => r \in behind'
BY DEF Learn, TypeInv, TypeOK, Copies

LEMMA Applied ==
  ASSUME TypeInv, NEW r \in Request, NEW v \in Version, v # 0, NEW w, applyUpdate(r, v, w)
  PROVE  /\ {updates', history', pending', known'} \subseteq Copies
         /\ behind \subseteq behind' /\ behind' \subseteq Request
         /\ known[r] > v => r \in behind'
         /\ known'[r] = IF v > known[r] THEN v ELSE known[r]
         /\ \A s \in Request \ {r} :
              /\ known'[s] = known[s]
              /\ updates'[s] = updates[s] /\ history'[s] = history[s] /\ pending'[s] = pending[s]
         /\ WorkspaceOf[r] # w => UNCHANGED <<updates, history, pending>>
         /\ WorkspaceOf[r] = w =>
              /\ pending'[r] = Shown(v)
              /\ history'[r] = IF IsPending(v) THEN history[r] ELSE Closed
<1> DEFINE copies == [NoCopies EXCEPT ![r] = v]
<1>0. /\ 0 \in Version /\ Version \subseteq Nat /\ NoCopies \in Copies /\ Shown(v) \in Version
      /\ ~IsPending(v) => v = Closed
  BY Versions DEF TypeInv
<1>1. copies \in Copies /\ copies[r] = v
  BY <1>0 DEF Copies
<1>2. Learn({r}, copies)
  BY DEF applyUpdate
<1> HIDE DEF copies
<1>3. /\ known' \in Copies
      /\ \A s \in Request :
           known'[s] = IF s \in {r} /\ copies[s] > known[s] THEN copies[s] ELSE known[s]
      /\ behind \subseteq behind' /\ behind' \subseteq Request
      /\ \A s \in {r} : known[s] > copies[s] => s \in behind'
  BY <1>1, <1>2, Learned
<1>4. {updates, history, pending} \subseteq Copies
  BY DEF TypeInv, TypeOK
<1>5. CASE WorkspaceOf[r] # w
  BY <1>1, <1>3, <1>4, <1>5 DEF applyUpdate
<1>6. CASE WorkspaceOf[r] = w
  <2>1. /\ updates' = [updates EXCEPT ![r] = v]
        /\ history' = IF IsPending(v) THEN history ELSE [history EXCEPT ![r] = v]
        /\ pending' = [pending EXCEPT ![r] = Shown(v)]
    BY <1>6 DEF applyUpdate, PendingWith, Shown
  <2> QED
    BY <1>0, <1>1, <1>3, <1>4, <1>6, <2>1 DEF Copies
<1> QED
  BY <1>5, <1>6

\* The effects of the page follow the lists; they ask for at most one request.
LEMMA Effected ==
  ASSUME TypeInv, NEW p \in Page, NEW S, NEW ready, NEW applied, Effects(p, S, ready, applied),
         {updates', pending'} \subseteq Copies
  PROVE  /\ page' \in Page
         /\ page'.open = p.open /\ page'.tab = p.tab
         /\ S \subseteq inflight'
         /\ \A q \in inflight' \ S : Fresh(q)
<1> DEFINE live == IF applied /\ p.open /\ p.selected # None /\ updates'[p.selected] # 0
                   THEN [p EXCEPT !.copy = updates'[p.selected]] ELSE p
           shown == ready /\ p.focus # None /\ pending'[p.focus] # 0
           call == Call("focus", current, p.focus)
<1>1. live \in Page /\ live.open = p.open /\ live.tab = p.tab
  BY DEF Page, Copies
<1>2. /\ page' = IF p.open /\ shown
                 THEN [live EXCEPT !.selected = p.focus, !.copy = pending'[p.focus], !.focus = None]
                 ELSE live
      /\ inflight' = S \cup IF p.open /\ p.focus # None /\ ~shown THEN {call} ELSE {}
  BY DEF Effects
<1>3. shown => p.focus \in Request /\ pending'[p.focus] \in Version
  BY DEF Page, Copies
<1>4. p.focus # None => Fresh(call)
  <2>1. current \in Workspace /\ p.focus \in Request \cup {None} /\ "focus" \in Kind
    BY DEF TypeInv, TypeOK, Page, Kind
  <2> QED
    BY <2>1, AskedCall
<1> HIDE DEF live, shown, call
<1>5. page' \in Page /\ page'.open = p.open /\ page'.tab = p.tab
  BY <1>1, <1>2, <1>3 DEF Page
<1> QED
  BY <1>2, <1>4, <1>5
LEMMA RequestPages ==
  ASSUME TypeInv, NEW r \in Request
  PROVE  /\ RequestPage(r) \in Page
         /\ RequestPage(r).open
         /\ RequestPage(r).tab = "history" => page.open /\ page.tab = "history"
<1>1. page \in Page /\ PageClosed \in Page /\ PageClosed.tab = "pending"
  BY Versions DEF TypeInv, TypeOK, Page, PageClosed
<1> QED
  BY <1>1 DEF RequestPage, Page

\* What the switch for a link leaves on its way.
LEMMA FollowCalls ==
  ASSUME TypeInv, NEW q \in inflight, Follow(q)
  PROVE  From(inflight, inflight') /\ q.request \in Request
<1>1. /\ q.request \in Request /\ WorkspaceOf[q.request] \in Workspace
      /\ From(inflight, Others(q))
  BY KeptCalls DEF Follow, TypeInv, Fits, ListsAssumption, Others, From
<1> DEFINE w == WorkspaceOf[q.request]
<1>2. /\ Fresh(Call("reload", w, None)) /\ Fresh(Call("history", w, None))
      /\ Fresh(Call("focus", w, q.request))
  BY <1>1, AskedCall DEF Kind
<1>3. inflight' \subseteq Others(q) \cup {Call("reload", w, None), Call("focus", w, q.request),
                                          Call("history", w, None)}
  BY DEF Follow
<1> HIDE DEF w
<1> QED
  BY <1>1, <1>2, <1>3 DEF From
------------------------------------------------------------------------------
(* Types.                                                                   *)

LEMMA InitTypes ==
  ASSUME ListsAssumption, Init
  PROVE  TypeInv
<1>1. /\ Version \subseteq Nat /\ NoCopies \in Copies
      /\ \A v \in {0, 1, Closed} : v \in Version
  BY Versions
<1>2. PICK o \in Openings :
        /\ current = o[1]
        /\ inflight = {Call("reload", current, None)}
                        \cup {Call("link", current, r) : r \in {o[2]} \ {None}}
        /\ moves = IF o[2] = None THEN 0 ELSE LinkMoves
  BY DEF Init
<1>3. /\ current \in Workspace /\ moves \in Nat
      /\ o[2] \in Request \cup {None}
  BY <1>2 DEF ListsAssumption
<1>4. page \in Page
  BY <1>1 DEF Init, Page, PageClosed
<1>5. version \in Copies
  BY <1>1 DEF Init, Copies
<1> QED
  <2>1. ASSUME NEW q \in inflight
        PROVE  q \in Calls /\ Fits(q)
    <3>1. PICK kind \in {"reload", "link"}, r \in Request \cup {None} :
            q = Call(kind, current, r) /\ (kind = "link" => r \in Request)
      BY <1>2, <1>3
    <3> QED
      BY <1>1, <1>3, <3>1 DEF Call, Calls, Kind, Fits, NoCopies
  <2>2. stream = {} /\ late = {} /\ behind = {}
    BY DEF Init
  <2>3. {pending, history, updates, known} \subseteq Copies
    BY <1>1 DEF Init
  <2>4. /\ policyOf = None /\ loadedFor = None /\ historyFor = None
        /\ historyNext = FALSE /\ failed = FALSE /\ historyFailed = FALSE /\ loadingMore = FALSE
    BY DEF Init
  <2>5. {historyNext, failed, historyFailed, loadingMore} \subseteq BOOLEAN
    BY <2>4, Zenon
  <2>7. TypeOK
    BY <1>3, <1>4, <1>5, <2>1, <2>2, <2>3, <2>4, <2>5 DEF TypeOK
  <2> QED
    BY <2>1, <2>2, <2>7 DEF TypeInv

\* The parts of a state that most steps leave alone.
ListTypes ==
  /\ policyOf \in Workspace \cup {None}
  /\ {pending, history, updates} \subseteq Copies
  /\ {loadedFor, historyFor} \subseteq Workspace \cup {None}
  /\ {historyNext, failed, historyFailed, loadingMore} \subseteq BOOLEAN
GhostTypes == known \in Copies /\ late \subseteq Request \cup Workspace /\ behind \subseteq Request
ServerTypes ==
  version \in Copies /\ stream \subseteq Request \X Version /\ \A e \in stream : e[2] # 0

LEMMA TypeParts ==
  TypeInv <=> /\ ListsAssumption
              /\ ServerTypes /\ ListTypes /\ GhostTypes
              /\ current \in Workspace /\ page \in Page /\ moves \in Nat
              /\ inflight \subseteq Calls /\ \A q \in inflight : Fits(q)
BY DEF TypeInv, TypeOK, ServerTypes, ListTypes, GhostTypes

\* The person asks for at most one request.
LEMMA PersonCalls ==
  ASSUME TypeInv, Person
  PROVE  From(inflight, inflight')
<1>0. inflight \subseteq Calls /\ current \in Workspace /\ page \in Page
  BY DEF TypeInv, TypeOK
<1>1. /\ From(inflight, inflight) /\ From(inflight, LeftBehind(inflight))
      /\ \A S \in {inflight, LeftBehind(inflight)} : S \subseteq S \cup inflight
  BY <1>0, KeptCalls, LeftCalls
<1>2. ASSUME NEW kind \in Kind \ {"vote", "send", "focus", "link", "switch"}, NEW w \in Workspace
      PROVE  /\ From(inflight, inflight \cup {Call(kind, w, None)})
             /\ From(inflight, LeftBehind(inflight) \cup {Call(kind, w, None)})
  <2>1. Fresh(Call(kind, w, None))
    BY AskedCall
  <2> QED
    BY <1>1, <2>1 DEF From
<1>3. ASSUME NEW kind \in {"vote", "send"}, NEW r \in Request
      PROVE  From(inflight, Asks(kind, r))
  <2>1. Fresh(Call(kind, current, r))
    BY <1>0, AskedCall DEF Kind
  <2> QED
    BY <1>1, <2>1 DEF From, Asks
<1>4. \A w \in Workspace : Switch(w) => From(inflight, inflight')
  BY <1>2 DEF Switch, Kind
<1>5. CASE OpenPage \/ LeavePage \/ Close \/ \E r \in Request : Select(r)
  BY <1>1, <1>5 DEF OpenPage, LeavePage, Close, Select, Show
<1>6. CASE SavePolicy \/ ReloadPolicy \/ Retry \/ RetryHistory \/ LoadMore
  BY <1>0, <1>2, <1>6
     DEF SavePolicy, ReloadPolicy, Retry, RetryHistory, LoadMore, Show, Asks, Kind
<1>7. CASE \E tab \in {"pending", "history"} : ShowTab(tab)
  <2>1. From(inflight, Asks("history", None))
    BY <1>0, <1>2 DEF Asks, Kind
  <2>2. inflight' \in {inflight, Asks("history", None)}
    BY <1>7 DEF ShowTab, Show
  <2> QED
    BY <1>1, <2>1, <2>2
<1>8. CASE Vote
  <2>1. page.selected \in Request
    BY <1>0, <1>8 DEF Vote, Page
  <2> QED
    BY <1>3, <1>8, <2>1 DEF Vote, Show
<1>9. CASE \E r \in Request : SendPayment(r)
  BY <1>3, <1>9 DEF SendPayment, Show
<1> QED
  BY <1>4, <1>5, <1>6, <1>7, <1>8, <1>9 DEF Person

\* What the person does leaves the server alone.
LEMMA PersonTypes ==
  ASSUME TypeInv, Person
  PROVE  TypeInv'
<1>1. /\ ListsAssumption
      /\ ServerTypes /\ ListTypes /\ GhostTypes
      /\ current \in Workspace /\ page \in Page /\ moves \in Nat
      /\ NoCopies \in Copies /\ {0, 1} \subseteq Version
  BY TypeParts, Versions
<1>2. inflight' \subseteq Calls /\ \A q \in inflight' : Fits(q)
  BY PersonCalls, CallTypes
<1>3. ASSUME Move, ListTypes', GhostTypes', current' \in Workspace, page' \in Page
      PROVE  TypeInv'
  <2>1. moves' \in Nat /\ UNCHANGED server
    BY <1>1, <1>3, InterfaceAssumption DEF Move
  <2>2. ServerTypes'
    BY <1>1, <2>1 DEF server, ServerTypes
  <2> QED
    BY <1>1, <1>2, <1>3, <2>1, <2>2 DEF TypeInv, TypeOK, ServerTypes, ListTypes, GhostTypes
<1>4. ASSUME Move, NEW p \in Page, NEW S, Show(p, S)
      PROVE  TypeInv'
  BY <1>1, <1>3, <1>4 DEF Show, ListTypes, GhostTypes, lists, ghosts
<1>5. ASSUME NEW w \in Workspace, Switch(w)
      PROVE  TypeInv'
  <2>1. Move /\ current' = w
    BY <1>5 DEF Switch, Enter
  <2>2. ListTypes'
    BY <1>1, <1>5 DEF Switch, Enter, ListTypes
  <2>3. GhostTypes'
    BY <1>1, <1>5 DEF Switch, Enter, GhostTypes
  <2>4. page' \in Page
    BY <1>1, <1>5 DEF Switch, Page, PageClosed
  <2> QED
    BY <1>3, <2>1, <2>2, <2>3, <2>4
<1>6. CASE OpenPage \/ LeavePage
  BY <1>1, <1>4, <1>6 DEF OpenPage, LeavePage, Page, PageClosed
<1>7. ASSUME NEW tab \in {"pending", "history"}, ShowTab(tab)
      PROVE  TypeInv'
  <2>1. [page EXCEPT !.tab = tab] \in Page
    BY <1>1 DEF Page
  <2> QED
    BY <1>4, <1>7, <2>1 DEF ShowTab
<1>8. ASSUME NEW r \in Request, Select(r)
      PROVE  TypeInv'
  <2>1. Rows \in Copies
    BY <1>1 DEF Rows, shownPending, ListTypes
  <2>2. [page EXCEPT !.selected = r, !.copy = Rows[r]] \in Page
    BY <1>1, <2>1 DEF Page, Copies
  <2> QED
    BY <1>4, <1>8, <2>2 DEF Select
<1>9. CASE Close \/ Vote \/ SavePolicy \/ ReloadPolicy \/ \E r \in Request : SendPayment(r)
  <2>1. /\ [page EXCEPT !.selected = None, !.copy = 0, !.busy = None] \in Page
        /\ [page EXCEPT !.busy = page.selected] \in Page
    BY <1>1 DEF Page
  <2> QED
    BY <1>1, <1>4, <1>9, <2>1 DEF Close, Vote, SavePolicy, ReloadPolicy, SendPayment
<1>10. CASE Retry \/ RetryHistory \/ LoadMore
  <2>1. Move /\ ListTypes' /\ GhostTypes' /\ UNCHANGED <<current, page>>
    BY <1>1, <1>10 DEF Retry, RetryHistory, LoadMore, ListTypes, GhostTypes, ghosts
  <2> QED
    BY <1>1, <1>3, <2>1
<1> QED
  BY <1>5, <1>6, <1>7, <1>8, <1>9, <1>10 DEF Person

\* The versions of the server, and an answer that leaves it.
LEMMA ServerStepTypes ==
  ASSUME TypeInv, ServerTypes',
         inflight' \subseteq Calls, \A p \in inflight' : Fits(p),
         UNCHANGED <<current, lists, page, ghosts, moves>>
  PROVE  TypeInv'
BY DEF TypeInv, TypeOK, ServerTypes, lists, ghosts

LEMMA PublishTypes ==
  ASSUME TypeInv, NEW r \in Request, version[r] < Closed, NEW v \in Step(r),
         version' = [version EXCEPT ![r] = v], Publish(r, v)
  PROVE  ServerTypes'
<1>1. v \in Version /\ v # 0
  BY StepUp
<1> QED
  BY <1>1 DEF Publish, ServerTypes, TypeInv, TypeOK, Copies

LEMMA OthersTypes ==
  ASSUME TypeInv, NEW r \in Request, OthersAct(r)
  PROVE  TypeInv'
<1>1. ServerTypes'
  BY PublishTypes DEF OthersAct
<1>2. inflight' \subseteq Calls /\ \A p \in inflight' : Fits(p)
  BY DEF OthersAct, TypeInv, TypeOK
<1> QED
  BY <1>1, <1>2, ServerStepTypes DEF OthersAct

LEMMA ExpiresTypes ==
  ASSUME TypeInv, NEW r \in Request, Expires(r)
  PROVE  TypeInv'
<1>1. version' \in Copies
  BY Versions DEF Expires, TypeInv, TypeOK, Copies
<1> QED
  BY <1>1 DEF Expires, TypeInv, TypeOK, Fits, lists

\* q comes back with its status and what it brings.
LEMMA AnsweredCall ==
  ASSUME TypeInv, NEW q \in inflight, NEW status \in {"ok", "lost"}, NEW got \in Copies
  PROVE  \E p \in Calls : /\ Answered(q, status, got) = (inflight \ {q}) \cup {p}
                          /\ p.kind = q.kind /\ p.workspace = q.workspace
                          /\ p.request = q.request /\ p.mine = q.mine
                          /\ p.status = status /\ p.got = got
<1> DEFINE p == [q EXCEPT !.status = status, !.got = got]
<1>1. /\ p \in Calls
      /\ p.kind = q.kind /\ p.workspace = q.workspace /\ p.request = q.request
      /\ p.mine = q.mine /\ p.status = status /\ p.got = got
  BY DEF TypeInv, TypeOK, Calls
<1> QED
  BY <1>1 DEF Answered

\* A read brings what the server holds of the workspace, or of the request.
LEMMA ReadAnswer ==
  ASSUME TypeInv, NEW q \in inflight, Read(q)
  PROVE  \E p \in Calls :
           /\ inflight' = (inflight \ {q}) \cup {p}
           /\ p.kind = q.kind /\ p.workspace = q.workspace /\ p.request = q.request
           /\ p.kind \notin {"vote", "send"}
           /\ p.kind = "link" => p.got[p.request] # 0
           /\ \A r \in Request : p.got[r] \in {0, version[r]}
           /\ p.kind \in {"reload", "history", "more"}
                => \A r \in Request : p.got[r] = IF r \in Of(p.workspace) THEN version[r] ELSE 0
<1> DEFINE rs == CASE q.kind \in {"reload", "history", "more"} -> Of(q.workspace)
                   [] q.kind \in {"focus", "link"} -> {q.request}
                   [] OTHER -> {}
           got == Only(version, rs)
<1>1. /\ got \in Copies
      /\ \A r \in Request : got[r] = IF r \in rs THEN version[r] ELSE 0
  BY Versions DEF TypeInv, TypeOK, Only, Copies
<1>2. q.kind \in {"reload", "history", "more"} => rs = Of(q.workspace)
  OBVIOUS
<1>3. inflight' = Answered(q, "ok", got) /\ q.kind \notin {"vote", "send"}
  BY DEF Read
<1>4. q.kind = "link" => q.request \in Request /\ q.request \in rs /\ version[q.request] # 0
  BY DEF Read, TypeInv, Fits
<1> HIDE DEF got, rs
<1> QED
  BY <1>1, <1>2, <1>3, <1>4, AnsweredCall

\* p is q with the answer v, or without.
Brought(p, q, v) ==
  /\ inflight' = (inflight \ {q}) \cup {p}
  /\ p.kind = q.kind /\ p.workspace = q.workspace /\ p.request = q.request
  /\ p.got \in Copies
  /\ \A r \in Request : p.got[r] \in {0, v} /\ (p.got[r] = v => r = q.request)
  /\ p.status = "ok" => p.got[q.request] = v

\* A change of the server, and its answer or none.
LEMMA ChangeAnswer ==
  ASSUME TypeInv, NEW q \in inflight, Change(q)
  PROVE  /\ q.kind \in {"vote", "send"} /\ q.request \in Request
         /\ version[q.request] < Closed
         /\ \E v \in Step(q.request) :
              /\ version' = [version EXCEPT ![q.request] = v]
              /\ Publish(q.request, v)
              /\ \E p \in Calls : Brought(p, q, v)
<1>1. q.kind \in {"vote", "send"} /\ q.request \in Request
  BY DEF Change, TypeInv, Fits
<1>2. version[q.request] < Closed
  BY <1>1, Versions DEF Change, IsPending, TypeInv, TypeOK, Copies, Closed, Version, ListsAssumption
<1>3. PICK v \in Step(q.request) :
        /\ version' = [version EXCEPT ![q.request] = v]
        /\ Publish(q.request, v)
        /\ \/ inflight' = Answered(q, "ok", [NoCopies EXCEPT ![q.request] = v])
           \/ inflight' = Answered(q, "lost", NoCopies)
  BY DEF Change
<1>4. v \in Version /\ v # 0 /\ NoCopies \in Copies
  BY <1>1, <1>2, StepUp, Versions DEF TypeInv
<1> DEFINE got == [NoCopies EXCEPT ![q.request] = v]
<1>5. /\ got \in Copies /\ got[q.request] = v
      /\ \A r \in Request : got[r] \in {0, v} /\ (got[r] = v => r = q.request)
  BY <1>1, <1>4 DEF Copies, NoCopies
<1>6. \A r \in Request : NoCopies[r] = 0
  BY DEF NoCopies
<1> HIDE DEF got
<1>7. \E p \in Calls : Brought(p, q, v)
  <2>1. CASE inflight' = Answered(q, "ok", got)
    <3>1. PICK p \in Calls :
             /\ inflight' = (inflight \ {q}) \cup {p}
             /\ p.kind = q.kind /\ p.workspace = q.workspace /\ p.request = q.request
             /\ p.status = "ok" /\ p.got = got
      BY <1>5, <2>1, AnsweredCall
    <3> QED
      BY <1>5, <3>1 DEF Brought
  <2>2. CASE inflight' = Answered(q, "lost", NoCopies)
    <3>1. PICK p \in Calls :
             /\ inflight' = (inflight \ {q}) \cup {p}
             /\ p.kind = q.kind /\ p.workspace = q.workspace /\ p.request = q.request
             /\ p.status = "lost" /\ p.got = NoCopies
      BY <1>4, <2>2, AnsweredCall
    <3> QED
      BY <1>4, <1>6, <3>1 DEF Brought
  <2> QED
    BY <1>3, <2>1, <2>2 DEF got
<1> QED
  BY <1>1, <1>2, <1>3, <1>7

LEMMA HandleTypes ==
  ASSUME TypeInv, NEW q \in inflight, Handle(q)
  PROVE  TypeInv'
<1>0. inflight \subseteq Calls /\ \A p \in inflight : Fits(p)
  BY DEF TypeInv, TypeOK
<1>1. UNCHANGED <<current, lists, page, ghosts, moves>>
  BY DEF Handle
<1>2. CASE Read(q)
  <2>1. PICK p \in Calls :
           /\ inflight' = (inflight \ {q}) \cup {p}
           /\ p.kind = q.kind /\ p.request = q.request
           /\ p.kind \notin {"vote", "send"}
           /\ p.kind = "link" => p.got[p.request] # 0
           /\ p.kind \in {"reload", "history", "more"}
                => \A r \in Request : p.got[r] = IF r \in Of(p.workspace) THEN version[r] ELSE 0
    BY <1>2, ReadAnswer
  <2>2. Fits(p)
    BY <1>0, <2>1 DEF Fits, Of
  <2>3. ServerTypes'
    BY <1>2 DEF Read, server, ServerTypes, TypeInv, TypeOK
  <2>4. inflight' \subseteq Calls /\ \A c \in inflight' : Fits(c)
    BY <1>0, <2>1, <2>2
  <2> QED
    BY <1>1, <2>3, <2>4, ServerStepTypes
<1>3. CASE Change(q)
  <2>1. PICK v \in Step(q.request) :
              /\ q.kind \in {"vote", "send"} /\ q.request \in Request
              /\ version[q.request] < Closed
              /\ version' = [version EXCEPT ![q.request] = v]
              /\ Publish(q.request, v)
              /\ \E p \in Calls : Brought(p, q, v)
    BY <1>3, ChangeAnswer
  <2>2. v # 0 /\ ServerTypes'
    BY <2>1, StepUp, PublishTypes
  <2>3. inflight' \subseteq Calls /\ \A c \in inflight' : Fits(c)
    BY <1>0, <2>1, <2>2 DEF Fits, Brought
  <2> QED
    BY <1>1, <2>2, <2>3, ServerStepTypes
<1> QED
  BY <1>2, <1>3 DEF Handle

LEMMA EventTypes ==
  ASSUME TypeInv, NEW e \in stream, Event(e)
  PROVE  TypeInv'
<1>0. /\ e[1] \in Request /\ e[2] \in Version /\ e[2] # 0
      /\ ServerTypes /\ ListTypes /\ GhostTypes
      /\ current \in Workspace /\ page \in Page /\ moves \in Nat /\ ListsAssumption
  BY TypeParts DEF TypeInv, TypeOK
<1>1. /\ stream' = stream \ {e}
      /\ UNCHANGED <<version, current, policyOf, loadedFor, historyFor, historyNext, failed,
                     historyFailed, loadingMore, late, moves>>
  BY DEF Event
<1>2. ServerTypes'
  BY <1>0, <1>1 DEF ServerTypes
<1>3. /\ {updates', history', pending', known'} \subseteq Copies
      /\ behind' \subseteq Request /\ page' \in Page /\ From(inflight, inflight')
  <2>1. CASE applyUpdate(e[1], e[2], current) /\ Effects(page, inflight, loaded, WorkspaceOf[e[1]] = current)
    <3>1. {updates', history', pending', known'} \subseteq Copies /\ behind' \subseteq Request
      BY <1>0, <2>1, Applied
    <3>2. /\ page' \in Page
          /\ \A p \in inflight' \ inflight : Fresh(p)
      BY <1>0, <2>1, <3>1, Effected
    <3> QED
      BY <3>1, <3>2, KeptCalls DEF From
  <2>2. CASE /\ behind' = behind \cup {e[1]}
             /\ UNCHANGED <<updates, history, pending, page, inflight, known>>
    BY <1>0, <2>2, KeptCalls DEF ListTypes, GhostTypes
  <2> QED
    BY <2>1, <2>2 DEF Event
<1>4. inflight' \subseteq Calls /\ \A p \in inflight' : Fits(p)
  BY <1>3, CallTypes
<1> QED
  BY <1>0, <1>1, <1>2, <1>3, <1>4
     DEF TypeInv, TypeOK, ServerTypes, ListTypes, GhostTypes

\* A list made of some copies of an answer.
LEMMA OnlyTypes ==
  ASSUME ListsAssumption, NEW copies \in Copies, NEW rs
  PROVE  /\ Only(copies, rs) \in Copies
         /\ \A r \in Request : Only(copies, rs)[r] = IF r \in rs THEN copies[r] ELSE 0
BY Versions DEF Only, Copies

LEMMA DeliverTypes ==
  ASSUME TypeInv, NEW q \in inflight, Deliver(q)
  PROVE  TypeInv'
<1>0. /\ ServerTypes /\ ListTypes /\ GhostTypes
      /\ current \in Workspace /\ page \in Page /\ moves \in Nat /\ ListsAssumption
      /\ NoCopies \in Copies /\ {0, Closed} \subseteq Version
      /\ q \in Calls /\ Fits(q) /\ q.got \in Copies /\ q.workspace \in Workspace
  BY TypeParts, Versions DEF Calls
<1>1. UNCHANGED <<server, current, moves>>
  BY DEF Deliver
<1>2. From(Others(q), Others(q)) /\ Others(q) \subseteq inflight
  BY KeptCalls DEF Others
<1>3. ASSUME NEW p \in Page, NEW ready, NEW applied, Effects(p, Others(q), ready, applied),
             {updates', pending'} \subseteq Copies
      PROVE  page' \in Page /\ From(inflight, inflight')
  <2>1. page' \in Page /\ \A c \in inflight' \ Others(q) : Fresh(c)
    BY <1>3, Effected
  <2> QED
    BY <1>2, <2>1 DEF From
<1>4. ASSUME inflight' = Others(q)
      PROVE  From(inflight, inflight')
  BY <1>2, <1>4 DEF From
<1>5. ASSUME ListTypes', GhostTypes', page' \in Page, From(inflight, inflight')
      PROVE  TypeInv'
  <2>1. inflight' \subseteq Calls /\ \A p \in inflight' : Fits(p)
    BY <1>5, CallTypes
  <2>2. ServerTypes'
    BY <1>0, <1>1 DEF server, ServerTypes
  <2> QED
    BY <1>0, <1>1, <1>5, <2>1, <2>2 DEF TypeInv, TypeOK, ServerTypes, ListTypes, GhostTypes
<1>6. ASSUME NEW rs \in SUBSET Request, Learn(rs, q.got)
      PROVE  known' \in Copies /\ behind' \subseteq Request
  BY <1>0, <1>6, Learned
<1>7. CASE reload(q)
  <2>1. CASE q.status = "ok" /\ IsCurrent(q)
    <3>1. /\ policyOf' = q.workspace /\ loadedFor' = q.workspace
          /\ pending' = Only(q.got, PendingIn(q.got))
          /\ Learn(Of(q.workspace), q.got)
          /\ UNCHANGED <<failed, updates>>
          /\ Effects(page, Others(q), TRUE, FALSE)
          /\ UNCHANGED <<history, historyFor, historyNext, historyFailed, loadingMore, late>>
      BY <1>7, <2>1 DEF reload
    <3>2. pending' \in Copies /\ known' \in Copies /\ behind' \subseteq Request
      BY <1>0, <1>6, <3>1, OnlyTypes DEF Of
    <3> QED
      BY <1>0, <1>3, <1>5, <3>1, <3>2 DEF ListTypes, GhostTypes
  <2>2. CASE ~(q.status = "ok" /\ IsCurrent(q))
    BY <1>0, <1>4, <1>5, <1>7, <2>2 DEF reload, ListTypes, GhostTypes
  <2> QED
    BY <2>1, <2>2
<1>8. CASE reloadPolicy(q)
  BY <1>0, <1>4, <1>5, <1>8 DEF reloadPolicy, ListTypes, GhostTypes, ghosts
<1>9. CASE loadHistory(q)
  <2>1. CASE q.status = "ok" /\ IsCurrent(q)
    <3>1. /\ history' = Only(q.got, ClosedIn(q.got) \cap Recent)
          /\ historyFor' = q.workspace
          /\ historyNext' \in BOOLEAN
          /\ Learn(Of(q.workspace), q.got)
          /\ UNCHANGED historyFailed
      BY <1>9, <2>1 DEF loadHistory
    <3>2. history' \in Copies /\ known' \in Copies /\ behind' \subseteq Request
      BY <1>0, <1>6, <3>1, OnlyTypes DEF Of
    <3> QED
      BY <1>0, <1>4, <1>5, <1>9, <3>1, <3>2 DEF loadHistory, ListTypes, GhostTypes
  <2>2. CASE ~(q.status = "ok" /\ IsCurrent(q))
    BY <1>0, <1>4, <1>5, <1>9, <2>2 DEF loadHistory, ListTypes, GhostTypes
  <2> QED
    BY <2>1, <2>2
<1>10. CASE loadMoreHistory(q)
  <2>1. CASE q.status = "ok" /\ IsCurrent(q)
    <3>1. /\ history' = [r \in Request |-> IF history[r] = 0 /\ r \in ClosedIn(q.got) \ Recent
                                           THEN Closed ELSE history[r]]
          /\ historyNext' = FALSE /\ loadingMore' = FALSE
          /\ Learn((ClosedIn(q.got) \ Recent) \cup Missed(q), q.got)
      BY <1>10, <2>1 DEF loadMoreHistory
    <3>2. history' \in Copies
      BY <1>0, <3>1 DEF ListTypes, Copies
    <3>3. known' \in Copies /\ behind' \subseteq Request
      BY <1>6, <3>1 DEF ClosedIn, Missed, Of
    <3> QED
      BY <1>0, <1>4, <1>5, <1>10, <3>1, <3>2, <3>3 DEF loadMoreHistory, ListTypes, GhostTypes
  <2>2. CASE ~(q.status = "ok" /\ IsCurrent(q))
    BY <1>0, <1>4, <1>5, <1>10, <2>2 DEF loadMoreHistory, ListTypes, GhostTypes
  <2> QED
    BY <2>1, <2>2
<1>11. ASSUME q.kind \in {"vote", "send", "link"}, q.status = "ok",
              applyUpdate(q.request, q.got[q.request], q.workspace), Lately(q, q.request),
              NEW p \in Page, Effects(p, Others(q), loaded, WorkspaceOf[q.request] = q.workspace),
              UNCHANGED <<policyOf, loadedFor, historyFor, historyNext, failed, historyFailed,
                          loadingMore>>
       PROVE  TypeInv'
  <2>1. q.request \in Request /\ q.got[q.request] \in Version /\ q.got[q.request] # 0
    BY <1>0, <1>11 DEF Fits, Copies
  <2>2. {updates', history', pending', known'} \subseteq Copies /\ behind' \subseteq Request
    BY <1>11, <2>1, Applied
  <2>3. late' \subseteq Request \cup Workspace
    BY <1>0, <1>11, <2>1 DEF Lately, GhostTypes
  <2> QED
    BY <1>0, <1>3, <1>5, <1>11, <2>2, <2>3 DEF ListTypes, GhostTypes
<1>12. ASSUME NEW p, UNCHANGED <<updates, history, pending, ghosts>>,
              UNCHANGED <<policyOf, loadedFor, historyFor, historyNext, failed, historyFailed,
                          loadingMore>>, page' = p, p \in Page, From(inflight, inflight')
       PROVE  TypeInv'
  BY <1>0, <1>5, <1>12 DEF ListTypes, GhostTypes, ghosts
<1>13. CASE voted(q)
  <2> DEFINE p == [page EXCEPT !.busy = IF q.mine /\ @ = q.request THEN None ELSE @]
             shown == IF q.mine THEN [p EXCEPT !.selected = q.request, !.copy = q.got[q.request]]
                      ELSE p
  <2>1. p \in Page
    BY <1>0 DEF Page
  <2>2. shown \in Page
    BY <1>0, <1>13, <2>1 DEF Page, Copies, voted, Fits
  <2>3. CASE q.status = "ok"
    BY <1>11, <1>13, <2>2, <2>3 DEF voted
  <2>4. CASE q.status # "ok"
    BY <1>4, <1>12, <1>13, <2>1, <2>4 DEF voted
  <2> QED
    BY <2>3, <2>4
<1>14. ASSUME q.kind \in {"send", "link"}, q.status = "ok", OpenedRequest(q),
              UNCHANGED <<policyOf, loadedFor, historyFor, historyNext, failed, historyFailed,
                          loadingMore>>
       PROVE  TypeInv'
  <2>1. RequestPage(q.request) \in Page
    BY <1>0, <1>14, RequestPages DEF Fits
  <2> QED
    BY <1>11, <1>14, <2>1 DEF OpenedRequest
<1>17. CASE sent(q)
  BY <1>0, <1>4, <1>12, <1>14, <1>17 DEF sent, NothingBrought
<1>18. CASE linked(q)
  <2>1. CASE q.status = "ok" /\ WorkspaceOf[q.request] = q.workspace
    BY <1>14, <1>18, <2>1 DEF linked
  <2>2. CASE ~(q.status = "ok" /\ WorkspaceOf[q.request] = q.workspace)
    <3>1. Fresh(Call("switch", q.workspace, q.request))
      BY <1>0, <1>18, AskedCall DEF linked, Fits, Kind
    <3>2. inflight' \subseteq Others(q) \cup {Call("switch", q.workspace, q.request)} /\ page' = page
      BY <1>18, <2>2 DEF linked, NothingBrought
    <3>3. From(inflight, inflight')
      BY <1>2, <3>1, <3>2 DEF From
    <3> QED
      BY <1>0, <1>12, <1>18, <2>2, <3>3 DEF linked, NothingBrought
  <2> QED
    BY <2>1, <2>2
<1>19. CASE arrived(q)
  <2>1. CASE q.status = "ok"
    <3>1. RequestPage(q.request) \in Page
      BY <1>0, <1>19, RequestPages DEF arrived, Fits
    <3>2. {updates', pending'} \subseteq Copies /\ ListTypes' /\ GhostTypes'
      BY <1>0, <1>19 DEF arrived, lists, ghosts, ListTypes, GhostTypes
    <3> QED
      BY <1>3, <1>5, <1>19, <2>1, <3>1, <3>2 DEF arrived
  <2>2. CASE q.status # "ok"
    BY <1>0, <1>4, <1>5, <1>19, <2>2 DEF arrived, lists, ghosts, ListTypes, GhostTypes
  <2> QED
    BY <2>1, <2>2
<1>15. CASE saved(q)
  BY <1>0, <1>4, <1>5, <1>15 DEF saved, Lately, ListTypes, GhostTypes
<1>16. CASE focused(q)
  <2>1. page' \in Page
    BY <1>0, <1>16 DEF focused, Page, Copies, Fits
  <2> QED
    BY <1>0, <1>4, <1>5, <1>16, <2>1 DEF focused, lists, ghosts, ListTypes, GhostTypes
<1> QED
  BY <1>7, <1>8, <1>9, <1>10, <1>13, <1>15, <1>16, <1>17, <1>18, <1>19 DEF Deliver

LEMMA FollowTypes ==
  ASSUME TypeInv, NEW q \in inflight, Follow(q)
  PROVE  TypeInv'
<1>1. /\ ListsAssumption /\ ServerTypes /\ ListTypes /\ GhostTypes /\ moves \in Nat
      /\ NoCopies \in Copies
  BY TypeParts, Versions
<1>2. From(inflight, inflight') /\ q.request \in Request
  BY FollowCalls
<1>3. inflight' \subseteq Calls /\ \A p \in inflight' : Fits(p)
  BY <1>2, CallTypes
<1>4. page' \in Page
  BY <1>2, RequestPages DEF Follow
<1>5. current' \in Workspace
  BY <1>1, <1>2 DEF Follow, Enter, ListsAssumption
<1>6. ListTypes' /\ GhostTypes'
  BY <1>1 DEF Follow, Enter, ListTypes, GhostTypes
<1>7. ServerTypes' /\ moves' \in Nat
  BY <1>1 DEF Follow, server, ServerTypes
<1> QED
  BY <1>1, <1>3, <1>4, <1>5, <1>6, <1>7 DEF TypeInv, TypeOK, ServerTypes, ListTypes, GhostTypes

LEMMA NextTypes ==
  ASSUME TypeInv, [Next]_vars
  PROVE  TypeInv'
<1>1. CASE Next
  BY <1>1, PersonTypes, OthersTypes, ExpiresTypes, EventTypes, HandleTypes, DeliverTypes,
     FollowTypes DEF Next
<1>2. CASE UNCHANGED vars
  BY <1>2 DEF vars, server, lists, ghosts, TypeInv, TypeOK
<1> QED
  BY <1>1, <1>2
------------------------------------------------------------------------------
(* The lists stay in their workspace.                                       *)

tabs == <<current, policyOf, pending, history, updates, late>>

\* Without a switch, what the person does leaves the lists as they are.
LEMMA PersonLists ==
  ASSUME Person
  PROVE  \/ \E w \in Workspace : Switch(w)
         \/ UNCHANGED <<tabs, loadedFor, historyFor, historyNext, known, behind>>
<1>1. ASSUME NEW p, NEW S, Show(p, S)
      PROVE  UNCHANGED <<tabs, loadedFor, historyFor, historyNext, known, behind>>
  BY <1>1 DEF Show, tabs, lists, ghosts
<1>2. CASE OpenPage \/ LeavePage \/ Close \/ Vote \/ SavePolicy \/ ReloadPolicy
  BY <1>1, <1>2 DEF OpenPage, LeavePage, Close, Vote, SavePolicy, ReloadPolicy
<1>3. CASE Retry \/ RetryHistory \/ LoadMore
  BY <1>3 DEF Retry, RetryHistory, LoadMore, tabs, ghosts
<1>4. CASE \E tab \in {"pending", "history"} : ShowTab(tab)
  BY <1>1, <1>4 DEF ShowTab
<1>5. CASE \E r \in Request : Select(r) \/ SendPayment(r)
  BY <1>1, <1>5 DEF Select, SendPayment
<1> QED
  BY <1>2, <1>3, <1>4, <1>5 DEF Person

\* An update that is applied is of the workspace of its closure.
LEMMA AppliedStays ==
  ASSUME TypeInv, LoadsStayInTheirWorkspace,
         NEW r \in Request, NEW v \in Version, v # 0, NEW w, applyUpdate(r, v, w),
         UNCHANGED <<current, policyOf>>,
         late \subseteq late', w # current => r \in late'
  PROVE  LoadsStayInTheirWorkspace'
<1>1. /\ \A s \in Request \ {r} :
           updates'[s] = updates[s] /\ history'[s] = history[s] /\ pending'[s] = pending[s]
      /\ WorkspaceOf[r] # w => UNCHANGED <<updates, history, pending>>
  BY Applied
<1>2. ASSUME NEW s \in Request, s \notin Of(current), s \notin late'
      PROVE  pending'[s] = 0 /\ history'[s] = 0 /\ updates'[s] = 0
  <2>1. pending[s] = 0 /\ history[s] = 0 /\ updates[s] = 0
    BY <1>2 DEF LoadsStayInTheirWorkspace, Held
  <2>2. CASE s = r
    BY <1>1, <1>2, <2>1, <2>2 DEF Of
  <2>3. CASE s # r
    BY <1>1, <2>1, <2>3
  <2> QED
    BY <2>2, <2>3
<1> QED
  BY <1>2 DEF LoadsStayInTheirWorkspace, Held, Of

LEMMA StaysStep ==
  ASSUME TypeInv, LoadsStayInTheirWorkspace, [Next]_vars
  PROVE  LoadsStayInTheirWorkspace'
<1>0. ASSUME UNCHANGED tabs
      PROVE  LoadsStayInTheirWorkspace'
  BY <1>0 DEF tabs, LoadsStayInTheirWorkspace, Held, Of
<1>1. ASSUME NEW w, Enter(w)
      PROVE  LoadsStayInTheirWorkspace'
  BY <1>1 DEF Enter, LoadsStayInTheirWorkspace, Held, NoCopies
<1>2. CASE Person
  BY <1>0, <1>1, <1>2, PersonLists DEF Switch
<1>3. ASSUME NEW r \in Request, OthersAct(r)
      PROVE  LoadsStayInTheirWorkspace'
  BY <1>0, <1>3 DEF OthersAct, lists, ghosts, tabs
<1>8. ASSUME NEW r \in Request, Expires(r)
      PROVE  LoadsStayInTheirWorkspace'
  BY <1>0, <1>8 DEF Expires, lists, tabs
<1>9. ASSUME NEW q \in inflight, Follow(q)
      PROVE  LoadsStayInTheirWorkspace'
  BY <1>1, <1>9 DEF Follow
<1>4. ASSUME NEW e \in stream, Event(e)
      PROVE  LoadsStayInTheirWorkspace'
  <2>1. e[1] \in Request /\ e[2] \in Version /\ e[2] # 0
    BY DEF TypeInv, TypeOK
  <2>2. UNCHANGED <<current, policyOf, late>>
    BY <1>4 DEF Event
  <2>3. CASE applyUpdate(e[1], e[2], current)
    BY <2>1, <2>2, <2>3, AppliedStays
  <2>4. CASE UNCHANGED <<updates, history, pending>>
    BY <1>0, <2>2, <2>4 DEF tabs
  <2> QED
    BY <1>4, <2>3, <2>4 DEF Event
<1>5. ASSUME NEW q \in inflight, Handle(q)
      PROVE  LoadsStayInTheirWorkspace'
  BY <1>0, <1>5 DEF Handle, lists, ghosts, tabs
<1>6. ASSUME NEW q \in inflight, Deliver(q)
      PROVE  LoadsStayInTheirWorkspace'
  <2>0. /\ UNCHANGED current
        /\ q \in Calls /\ Fits(q) /\ q.got \in Copies
    BY <1>6 DEF Deliver, TypeInv, TypeOK, Calls
  <2>1. CASE reload(q)
    <3>1. UNCHANGED <<history, late>>
      BY <2>1 DEF reload
    <3>2. CASE UNCHANGED <<policyOf, pending, updates>>
      BY <1>0, <2>0, <3>1, <3>2 DEF tabs
    <3>3. CASE /\ policyOf' = q.workspace /\ IsCurrent(q)
               /\ pending' = Only(q.got, PendingIn(q.got)) /\ UNCHANGED updates
      <4>1. \A r \in Request : pending'[r] # 0 => r \in Of(current)
        BY <2>0, <2>1, <3>3, OnlyTypes DEF reload, Fits, Of, IsCurrent, TypeInv
      <4> QED
        BY <2>0, <3>1, <3>3, <4>1 DEF LoadsStayInTheirWorkspace, Held, Of, IsCurrent
    <3> QED
      BY <2>1, <3>2, <3>3 DEF reload
  <2>2. CASE reloadPolicy(q)
    BY <2>0, <2>2 DEF reloadPolicy, ghosts, LoadsStayInTheirWorkspace, Held, Of, IsCurrent
  <2>3. CASE loadHistory(q)
    <3>1. UNCHANGED <<policyOf, pending, updates, late>>
      BY <2>3 DEF loadHistory
    <3>2. CASE UNCHANGED history
      BY <1>0, <2>0, <3>1, <3>2 DEF tabs
    <3>3. CASE IsCurrent(q) /\ history' = Only(q.got, ClosedIn(q.got) \cap Recent)
      <4>1. \A r \in Request : history'[r] # 0 => r \in Of(current)
        BY <2>0, <2>3, <3>3, OnlyTypes DEF loadHistory, Fits, Of, IsCurrent, TypeInv
      <4> QED
        BY <2>0, <3>1, <4>1 DEF LoadsStayInTheirWorkspace, Held, Of
    <3> QED
      BY <2>3, <3>2, <3>3 DEF loadHistory
  <2>4. CASE loadMoreHistory(q)
    <3>1. UNCHANGED <<policyOf, pending, updates, late>>
      BY <2>4 DEF loadMoreHistory
    <3>2. CASE UNCHANGED history
      BY <1>0, <2>0, <3>1, <3>2 DEF tabs
    <3>3. CASE /\ IsCurrent(q)
               /\ history' = [r \in Request |-> IF history[r] = 0 /\ r \in ClosedIn(q.got) \ Recent
                                                THEN Closed ELSE history[r]]
      <4>1. \A r \in ClosedIn(q.got) : r \in Of(current)
        BY <2>0, <2>4, <3>3, Versions DEF loadMoreHistory, Fits, ClosedIn, Of, IsCurrent, TypeInv
      <4>2. \A r \in Request : history'[r] # 0 => r \in Of(current) \/ history[r] # 0
        BY <3>3, <4>1
      <4> QED
        BY <2>0, <3>1, <4>2 DEF LoadsStayInTheirWorkspace, Held, Of
    <3> QED
      BY <2>4, <3>2, <3>3 DEF loadMoreHistory
  <2>5. ASSUME q.kind \in {"vote", "send", "link"}, q.status = "ok", Lately(q, q.request),
               applyUpdate(q.request, q.got[q.request], q.workspace), UNCHANGED policyOf
        PROVE  LoadsStayInTheirWorkspace'
    <3>1. q.request \in Request /\ q.got[q.request] \in Version /\ q.got[q.request] # 0
      BY <2>0, <2>5 DEF Fits, Copies
    <3>2. late \subseteq late' /\ (q.workspace # current => q.request \in late')
      BY <2>5 DEF Lately, IsCurrent
    <3> QED
      BY <2>0, <2>5, <3>1, <3>2, AppliedStays
  <2>6. CASE voted(q) \/ sent(q)
    BY <1>0, <2>0, <2>5, <2>6 DEF voted, sent, OpenedRequest, NothingBrought, ghosts, tabs
  <2>9. CASE linked(q) \/ arrived(q)
    BY <1>0, <2>0, <2>5, <2>9 DEF linked, arrived, OpenedRequest, NothingBrought, lists, ghosts, tabs
  <2>7. CASE saved(q)
    <3>1. UNCHANGED <<pending, history, updates>> /\ late \subseteq late'
      BY <2>7 DEF saved, Lately
    <3>2. policyOf' = policyOf \/ policyOf' \in {current} \cup late'
      BY <2>7 DEF saved, Lately, IsCurrent
    <3> QED
      BY <2>0, <3>1, <3>2 DEF LoadsStayInTheirWorkspace, Held, Of
  <2>8. CASE focused(q)
    BY <1>0, <2>0, <2>8 DEF focused, lists, ghosts, tabs
  <2> QED
    BY <1>6, <2>1, <2>2, <2>3, <2>4, <2>6, <2>7, <2>8, <2>9 DEF Deliver
<1>7. CASE UNCHANGED vars
  BY <1>0, <1>7 DEF vars, lists, ghosts, tabs
<1> QED
  BY <1>2, <1>3, <1>4, <1>5, <1>6, <1>7, <1>8, <1>9 DEF Next
------------------------------------------------------------------------------
(* No spinner without a request behind it.                                  *)

Waits(kind, w) == \E q \in inflight : q.kind = kind /\ q.workspace = w

Spinning ==
  /\ ~loaded /\ ~failed => Waits("reload", current)
  /\ page.open /\ page.tab = "history" /\ ~historyLoaded /\ ~historyFailed
       => Waits("history", current)
  /\ loadingMore => \E q \in inflight : q.kind = "more"

LEMMA SpinningIsUnderWay == Spinning <=> SpinnerIsUnderWay
BY DEF Spinning, SpinnerIsUnderWay, Waits, IsCurrent

\* Nothing that was on its way is gone.
KeepsAll == \A c \in inflight : \E p \in inflight' : p.kind = c.kind /\ p.workspace = c.workspace

LEMMA StillSpinning ==
  ASSUME Spinning, KeepsAll, UNCHANGED current,
         loaded' = loaded, failed => failed' \/ Waits("reload", current)',
         page'.open /\ page'.tab = "history" /\ ~historyLoaded' /\ ~historyFailed'
           => \/ page.open /\ page.tab = "history" /\ ~historyLoaded /\ ~historyFailed
              \/ Waits("history", current)',
         loadingMore' => loadingMore \/ \E q \in inflight' : q.kind = "more"
  PROVE  Spinning'
BY DEF Spinning, KeepsAll, Waits

LEMMA PersonSpinning ==
  ASSUME TypeInv, Spinning, Person
  PROVE  Spinning'
<1>0. inflight \subseteq Calls /\ None \notin Workspace /\ current \in Workspace
  BY InterfaceAssumption DEF TypeInv, TypeOK
<1>1. ASSUME NEW S, inflight \subseteq S, S \subseteq inflight'
      PROVE  KeepsAll
  BY <1>1 DEF KeepsAll
<1>2. ASSUME NEW kind, NEW w, Call(kind, w, None) \in inflight'
      PROVE  Waits(kind, w)'
  BY <1>2 DEF Waits, Call
<1>3. ASSUME NEW w \in Workspace, Switch(w)
      PROVE  Spinning'
  <2>1. Waits("reload", current)'
    BY <1>2, <1>3 DEF Switch, Enter
  <2>2. ~page'.open
    BY <1>3 DEF Switch, PageClosed
  <2>3. UNCHANGED loadingMore /\ LeftBehind(inflight) \subseteq inflight'
    BY <1>3 DEF Switch, Enter
  <2>4. loadingMore => \E q \in inflight' : q.kind = "more"
    BY <1>0, <2>3, LeftCalls DEF Spinning, Same
  <2> QED
    BY <2>1, <2>2, <2>3, <2>4 DEF Spinning
<1>4. ASSUME NEW p, NEW S, Show(p, S), inflight \subseteq S \/ S = LeftBehind(inflight),
             p.open /\ p.tab = "history" /\ ~historyLoaded /\ ~historyFailed
               => \/ page.open /\ page.tab = "history"
                  \/ Call("history", current, None) \in S
      PROVE  Spinning'
  <2>1. page' = p /\ inflight' = S /\ UNCHANGED <<current, lists>>
    BY <1>4 DEF Show
  <2>2. KeepsAll
    BY <1>0, <1>1, <1>4, <2>1, LeftCalls DEF KeepsAll, Same
  <2>3. Call("history", current, None) \in S => Waits("history", current)'
    BY <1>2, <2>1
  <2> QED
    BY <1>4, <2>1, <2>2, <2>3, StillSpinning DEF lists, loaded, historyLoaded
<1>5. CASE OpenPage \/ LeavePage
  BY <1>4, <1>5 DEF OpenPage, LeavePage, PageClosed
<1>6. ASSUME NEW tab \in {"pending", "history"}, ShowTab(tab)
      PROVE  Spinning'
  <2> DEFINE p == [page EXCEPT !.tab = tab]
             S == IF tab = "history" /\ ~historyLoaded /\ ~historyFailed
                  THEN Asks("history", None) ELSE inflight
  <2>1. Show(p, S)
    BY <1>6 DEF ShowTab
  <2>2. p.tab = tab /\ inflight \subseteq S
    BY DEF TypeInv, TypeOK, Page, Asks
  <2>3. tab = "history" /\ ~historyLoaded /\ ~historyFailed
          => Call("history", current, None) \in S
    BY DEF Asks
  <2> HIDE DEF p, S
  <2> QED
    BY <1>4, <2>1, <2>2, <2>3
<1>7. ASSUME NEW p \in Page, NEW S, Show(p, S), inflight \subseteq S,
             p.open = page.open, p.tab = page.tab
      PROVE  Spinning'
  BY <1>4, <1>7
<1>8. CASE Close \/ Vote \/ SavePolicy \/ ReloadPolicy
  <2>1. /\ page \in Page
        /\ [page EXCEPT !.selected = None, !.copy = 0, !.busy = None] \in Page
        /\ [page EXCEPT !.busy = page.selected] \in Page
    BY Versions DEF TypeInv, TypeOK, Page
  <2> QED
    BY <1>7, <1>8, <2>1 DEF Close, Vote, SavePolicy, ReloadPolicy, Asks, Page
<1>9. ASSUME NEW r \in Request, Select(r)
      PROVE  Spinning'
  <2>1. Rows[r] \in Version
    BY Versions DEF TypeInv, TypeOK, Rows, shownPending, Copies
  <2>2. [page EXCEPT !.selected = r, !.copy = Rows[r]] \in Page
    BY <2>1 DEF TypeInv, TypeOK, Page
  <2> QED
    BY <1>7, <1>9, <2>2 DEF Select, Page, TypeInv, TypeOK
<1>10. ASSUME NEW r \in Request, SendPayment(r)
       PROVE  Spinning'
  BY <1>7, <1>10 DEF SendPayment, Asks, TypeInv, TypeOK
<1>11. CASE Retry
  <2>1. Waits("reload", current)' /\ KeepsAll
    BY <1>1, <1>2, <1>11 DEF Retry, Asks
  <2> QED
    BY <1>11, <2>1, StillSpinning DEF Retry, loaded, historyLoaded
<1>12. CASE RetryHistory
  <2>1. Waits("history", current)' /\ KeepsAll
    BY <1>1, <1>2, <1>12 DEF RetryHistory, Asks
  <2> QED
    BY <1>12, <2>1, StillSpinning DEF RetryHistory, loaded, historyLoaded
<1>13. CASE LoadMore
  <2>1. Call("more", current, None) \in inflight' /\ inflight \subseteq inflight'
    BY <1>13 DEF LoadMore, Asks
  <2>2. (\E q \in inflight' : q.kind = "more") /\ KeepsAll
    BY <1>1, <1>2, <2>1 DEF Waits
  <2> QED
    BY <1>13, <2>2, StillSpinning DEF LoadMore, loaded, historyLoaded
<1> QED
  BY <1>3, <1>5, <1>6, <1>8, <1>9, <1>10, <1>11, <1>12, <1>13 DEF Person

LEMMA HandleKeeps ==
  ASSUME TypeInv, NEW q \in inflight, Handle(q)
  PROVE  KeepsAll
<1>1. \E p : /\ inflight' = (inflight \ {q}) \cup {p}
             /\ p.kind = q.kind /\ p.workspace = q.workspace
  BY ReadAnswer, ChangeAnswer DEF Handle, Brought
<1> QED
  BY <1>1 DEF KeepsAll

LEMMA SpinningStep ==
  ASSUME TypeInv, Spinning, [Next]_vars
  PROVE  Spinning'
<1>1. CASE Person
  BY <1>1, PersonSpinning
<1>2. ASSUME KeepsAll, UNCHANGED <<current, loadedFor, failed, historyFor, historyFailed, loadingMore>>,
             page'.open = page.open, page'.tab = page.tab
      PROVE  Spinning'
  BY <1>2, StillSpinning DEF loaded, historyLoaded
<1>3. inflight' = inflight => KeepsAll
  BY DEF KeepsAll
<1>4. ASSUME NEW r \in Request, OthersAct(r)
      PROVE  Spinning'
  BY <1>2, <1>3, <1>4 DEF OthersAct, lists
<1>9. ASSUME NEW r \in Request, Expires(r)
      PROVE  Spinning'
  BY <1>2, <1>3, <1>9 DEF Expires, lists
<1>10. ASSUME NEW q \in inflight, Follow(q)
       PROVE  Spinning'
  <2> DEFINE w == WorkspaceOf[q.request]
  <2>1. /\ current' = w /\ q.kind = "switch" /\ UNCHANGED <<historyFailed, loadingMore>>
        /\ page' = RequestPage(q.request) /\ q.request \in Request
    BY <1>10, FollowCalls DEF Follow, Enter
  <2>2. Waits("reload", current)'
    <3>1. Call("reload", w, None) \in inflight'
      BY <1>10 DEF Follow
    <3> QED
      BY <2>1, <3>1 DEF Waits, Call
  <2>3. page'.tab = "history" /\ ~historyFailed' => Waits("history", current)'
    <3>1. page'.tab = "history" /\ ~historyFailed' => Call("history", w, None) \in inflight'
      BY <1>10, <2>1, RequestPages DEF Follow
    <3> QED
      BY <2>1, <3>1 DEF Waits, Call
  <2>4. loadingMore => \E c \in inflight' : c.kind = "more"
    BY <1>10, <2>1 DEF Follow, Others, Spinning
  <2> QED
    BY <2>1, <2>2, <2>3, <2>4 DEF Spinning
<1>5. ASSUME NEW q \in inflight, Handle(q)
      PROVE  Spinning'
  BY <1>2, <1>5, HandleKeeps DEF Handle, lists
<1>6. ASSUME NEW e \in stream, Event(e)
      PROVE  Spinning'
  <2>1. /\ e[1] \in Request /\ e[2] \in Version /\ e[2] # 0 /\ page \in Page
    BY DEF TypeInv, TypeOK
  <2>2. CASE applyUpdate(e[1], e[2], current) /\ Effects(page, inflight, loaded, WorkspaceOf[e[1]] = current)
    <3>1. {updates', pending'} \subseteq Copies
      BY <2>1, <2>2, Applied
    <3>2. page'.open = page.open /\ page'.tab = page.tab /\ inflight \subseteq inflight'
      BY <2>1, <2>2, <3>1, Effected
    <3>3. KeepsAll
      BY <3>2 DEF KeepsAll
    <3> QED
      BY <1>2, <1>6, <3>2, <3>3 DEF Event
  <2>3. CASE UNCHANGED <<page, inflight>>
    BY <1>2, <1>3, <1>6, <2>3 DEF Event
  <2> QED
    BY <1>6, <2>2, <2>3 DEF Event
<1>7. ASSUME NEW q \in inflight, Deliver(q)
      PROVE  Spinning'
  <2>0. /\ UNCHANGED current
        /\ q \in Calls /\ Fits(q) /\ q.got \in Copies /\ page \in Page
    BY <1>7 DEF Deliver, TypeInv, TypeOK, Calls
  <2>1. ASSUME NEW kind, NEW w, Waits(kind, w), ~(q.kind = kind /\ q.workspace = w),
               Others(q) \subseteq inflight'
        PROVE  Waits(kind, w)'
    BY <2>1 DEF Waits, Others
  <2>2. ASSUME \E c \in inflight : c.kind = "more", q.kind # "more", Others(q) \subseteq inflight'
        PROVE  \E c \in inflight' : c.kind = "more"
    BY <2>2 DEF Others
  <2>3. ASSUME NEW p \in Page, NEW S, NEW ready, NEW applied, Effects(p, S, ready, applied),
               {updates', pending'} \subseteq Copies
        PROVE  page'.open = p.open /\ page'.tab = p.tab /\ S \subseteq inflight'
    BY <2>3, Effected
  <2>4. CASE reload(q)
    <3>1. UNCHANGED <<historyFor, historyFailed, loadingMore>> /\ q.kind = "reload"
      BY <2>4 DEF reload
    <3>2. CASE q.status = "ok" /\ IsCurrent(q)
      <4>1. /\ loadedFor' = current /\ Effects(page, Others(q), TRUE, FALSE)
            /\ UNCHANGED updates /\ pending' = Only(q.got, PendingIn(q.got))
        BY <2>4, <3>2 DEF reload, IsCurrent
      <4>2. {updates', pending'} \subseteq Copies
        BY <2>0, <4>1, OnlyTypes DEF TypeInv, TypeOK
      <4>3. page'.open = page.open /\ page'.tab = page.tab /\ Others(q) \subseteq inflight'
        BY <2>0, <2>3, <4>1, <4>2
      <4> QED
        BY <2>0, <2>1, <2>2, <3>1, <4>1, <4>3 DEF Spinning, loaded, historyLoaded
    <3>3. CASE ~(q.status = "ok" /\ IsCurrent(q))
      <4>1. /\ failed' = (failed \/ (q.status # "ok" /\ IsCurrent(q)))
            /\ inflight' = Others(q) /\ UNCHANGED <<loadedFor, page>>
        BY <2>4, <3>3 DEF reload, reloadFailed
      <4> QED
        BY <2>0, <2>1, <2>2, <3>1, <3>3, <4>1 DEF Spinning, loaded, historyLoaded, IsCurrent
    <3> QED
      BY <3>2, <3>3
  <2>5. CASE loadHistory(q)
    <3>1. /\ UNCHANGED <<loadedFor, failed, loadingMore, page>> /\ q.kind = "history"
          /\ inflight' = Others(q)
      BY <2>5 DEF loadHistory
    <3>2. CASE q.status = "ok" /\ IsCurrent(q)
      <4>1. historyFor' = current
        BY <2>5, <3>2 DEF loadHistory, IsCurrent
      <4> QED
        BY <2>0, <2>1, <2>2, <3>1, <4>1 DEF Spinning, loaded, historyLoaded
    <3>3. CASE ~(q.status = "ok" /\ IsCurrent(q))
      <4>1. /\ historyFailed' = (historyFailed \/ (q.status # "ok" /\ IsCurrent(q)))
            /\ UNCHANGED historyFor
        BY <2>5, <3>3 DEF loadHistory
      <4> QED
        BY <2>0, <2>1, <2>2, <3>1, <3>3, <4>1 DEF Spinning, loaded, historyLoaded, IsCurrent
    <3> QED
      BY <3>2, <3>3
  <2>6. CASE loadMoreHistory(q)
    <3>1. /\ UNCHANGED <<loadedFor, historyFor, failed, historyFailed, page>>
          /\ q.kind = "more" /\ inflight' = Others(q) /\ loadingMore' = FALSE
      BY <2>6 DEF loadMoreHistory
    <3> QED
      BY <2>0, <2>1, <3>1 DEF Spinning, loaded, historyLoaded
  <2>7. ASSUME q.kind \in {"policy", "vote", "send", "save", "focus", "link", "switch"},
               Others(q) \subseteq inflight', failed => failed',
               UNCHANGED <<loadedFor, historyFor, historyFailed, loadingMore>>,
               page'.open /\ page'.tab = "history" => page.open /\ page.tab = "history"
        PROVE  Spinning'
    BY <2>0, <2>1, <2>2, <2>7 DEF Spinning, loaded, historyLoaded
  <2>8. CASE reloadPolicy(q) \/ saved(q)
    BY <2>7, <2>8 DEF reloadPolicy, saved
  <2>9. CASE focused(q)
    <3>1. page'.open = page.open /\ page'.tab = page.tab
      BY <2>0, <2>9 DEF focused, Page
    <3> QED
      BY <2>7, <2>9, <3>1 DEF focused, lists
  <2>10. ASSUME q.kind \in {"vote", "send", "link"}, q.status = "ok", NEW p \in Page,
                applyUpdate(q.request, q.got[q.request], q.workspace),
                Effects(p, Others(q), loaded, WorkspaceOf[q.request] = q.workspace)
         PROVE  page'.open = p.open /\ page'.tab = p.tab /\ Others(q) \subseteq inflight'
    <3>1. q.request \in Request /\ q.got[q.request] \in Version /\ q.got[q.request] # 0
      BY <2>0, <2>10 DEF Fits, Copies
    <3>2. {updates', pending'} \subseteq Copies
      BY <2>10, <3>1, Applied
    <3> QED
      BY <2>3, <2>10, <3>2
  <2>11. CASE voted(q)
    <3> DEFINE p == [page EXCEPT !.busy = IF q.mine /\ @ = q.request THEN None ELSE @]
               shown == IF q.mine THEN [p EXCEPT !.selected = q.request, !.copy = q.got[q.request]]
                        ELSE p
    <3>1. p \in Page /\ p.open = page.open /\ p.tab = page.tab
      BY <2>0 DEF Page
    <3>2. shown \in Page /\ shown.open = page.open /\ shown.tab = page.tab
      BY <2>0, <2>11, <3>1 DEF Page, Copies, voted, Fits
    <3>3. page'.open = page.open /\ page'.tab = page.tab /\ Others(q) \subseteq inflight'
      <4>1. CASE q.status = "ok"
        BY <2>10, <2>11, <3>2, <4>1 DEF voted
      <4>2. CASE q.status # "ok"
        BY <2>11, <3>1, <4>2 DEF voted
      <4> QED
        BY <4>1, <4>2
    <3> QED
      BY <2>7, <2>11, <3>3 DEF voted
  <2>12. ASSUME q.kind \in {"send", "link"}, q.status = "ok", OpenedRequest(q)
         PROVE  /\ page'.open /\ page'.tab = "history" => page.open /\ page.tab = "history"
                /\ Others(q) \subseteq inflight'
    <3>1. /\ RequestPage(q.request) \in Page
          /\ RequestPage(q.request).tab = "history" => page.open /\ page.tab = "history"
      BY <2>0, <2>12, RequestPages DEF Fits
    <3> QED
      BY <2>10, <2>12, <3>1 DEF OpenedRequest
  <2>13. CASE sent(q)
    BY <2>7, <2>12, <2>13 DEF sent, NothingBrought
  <2>14. CASE linked(q)
    BY <2>7, <2>12, <2>14 DEF linked, NothingBrought
  <2>15. CASE arrived(q)
    <3>1. CASE q.status = "ok"
      <4>1. /\ RequestPage(q.request) \in Page
            /\ RequestPage(q.request).tab = "history" => page.open /\ page.tab = "history"
        BY <2>0, <2>15, RequestPages DEF arrived, Fits
      <4>2. {updates', pending'} \subseteq Copies
        BY <2>15 DEF arrived, lists, TypeInv, TypeOK
      <4>3. page'.tab = RequestPage(q.request).tab /\ Others(q) \subseteq inflight'
        BY <2>3, <2>15, <3>1, <4>1, <4>2 DEF arrived
      <4> QED
        BY <2>7, <2>15, <4>1, <4>3 DEF arrived, lists
    <3>2. CASE q.status # "ok"
      BY <2>7, <2>15, <3>2 DEF arrived, lists
    <3> QED
      BY <3>1, <3>2
  <2> QED
    BY <1>7, <2>4, <2>5, <2>6, <2>8, <2>9, <2>11, <2>13, <2>14, <2>15 DEF Deliver
<1>8. CASE UNCHANGED vars
  BY <1>2, <1>3, <1>8 DEF vars, lists
<1> QED
  BY <1>1, <1>4, <1>5, <1>6, <1>7, <1>8, <1>9, <1>10 DEF Next
------------------------------------------------------------------------------
(* With nothing on its way, the lists agree with the server.                *)

\* The newest version of r came to the tab, or is announced.
Heard(r) == known[r] = version[r] \/ Announced(r)

\* Copies are versions; a number is not less than it is.
LEMMA Numbers ==
  ASSUME TypeInv, NEW r \in Request
  PROVE  /\ version[r] \in Nat /\ version[r] <= Closed /\ known[r] \in Nat
         /\ Closed \in Nat /\ Closed # 0
         /\ pending[r] \in Version /\ history[r] \in Version
         /\ \A q \in inflight : q.got[r] \in Nat /\ q.got[r] \in Version
BY Versions DEF TypeInv, TypeOK, Copies, Calls

\* The tab learns of copies that are not ahead of the server.
LEMMA LearnedOf ==
  ASSUME TypeInv, NotAhead, UNCHANGED server,
         NEW rs \in SUBSET Request, NEW q \in inflight, Learn(rs, q.got)
  PROVE  /\ \A r \in Request : known'[r] <= version[r]
         /\ \A r \in Request : known[r] = version[r] => known'[r] = version[r]
         /\ \A r \in Request : Announced(r) => Announced(r)'
         /\ \A r \in rs : q.got[r] = version[r] => known'[r] = version[r]
         /\ \A r \in rs : known[r] = version[r] /\ q.got[r] # version[r] => Announced(r)'
<1>1. q.got \in Copies
  BY DEF TypeInv, TypeOK, Calls
<1>2. /\ \A r \in Request :
           known'[r] = IF r \in rs /\ q.got[r] > known[r] THEN q.got[r] ELSE known[r]
      /\ behind \subseteq behind'
      /\ \A r \in rs : known[r] > q.got[r] => r \in behind'
  BY <1>1, Learned
<1>3. \A r \in Request : known[r] <= version[r] /\ q.got[r] <= version[r]
  BY DEF NotAhead
<1> QED
  BY <1>2, <1>3, Numbers DEF Announced, server

\* An update that is not ahead of the server.
LEMMA AppliedOf ==
  ASSUME TypeInv, NotAhead, version' = version, NEW r \in Request, NEW v \in Version, v # 0,
         v <= version[r], NEW w, applyUpdate(r, v, w),
         stream' \in {stream, stream \ {<<r, v>>}}
  PROVE  /\ \A s \in Request : known'[s] <= version[s]
         /\ \A s \in Request : known[s] = version[s] => known'[s] = version[s]
         /\ \A s \in Request \ {r} : Announced(s) => Announced(s)'
         /\ v = version[r] => known'[r] = version[r]
         /\ v # version[r] => (Announced(r) => Announced(r)')
         /\ v # version[r] /\ known[r] = version[r] => Announced(r)'
<1>1. /\ behind \subseteq behind'
      /\ known[r] > v => r \in behind'
      /\ known'[r] = IF v > known[r] THEN v ELSE known[r]
      /\ \A s \in Request \ {r} : known'[s] = known[s]
  BY Applied
<1>2. \A s \in Request : known[s] <= version[s]
  BY DEF NotAhead
<1>3. v \in Nat
  BY Versions DEF TypeInv
<1>4. \A s \in Request : <<s, version[s]>> # <<r, v>> =>
         (<<s, version[s]>> \in stream => <<s, version[s]>> \in stream')
  OBVIOUS
<1> QED
  BY <1>1, <1>2, <1>3, <1>4, Numbers DEF Announced

\* What keeps the answers that are on their way true.
Follows(r) == Heard(r)' \/ (version'[r] = version[r] /\ ~Heard(r))

LEMMA RecallsStay ==
  ASSUME TypeInv, \A q \in inflight : Recalls(q), NEW S \in SUBSET inflight, NEW T,
         From(S, T), \A r \in Request : Follows(r)
  PROVE  \A p \in T : Recalls(p)'
<1>1. ASSUME NEW p \in T
      PROVE  Recalls(p)'
  <2>1. CASE Fresh(p)
    BY <2>1 DEF Fresh, Recalls
  <2>2. ASSUME NEW q \in S, Same(p, q)
        PROVE  Recalls(p)'
    BY <2>2 DEF Same, Recalls, Follows, Heard, Of
  <2> QED
    BY <1>1, <2>1, <2>2 DEF From
<1> QED
  BY <1>1

\* A step of the tab leaves the server alone.
LEMMA NotAheadStays ==
  ASSUME TypeInv, NotAhead, version' = version, stream' \subseteq stream,
         \A r \in Request : known'[r] <= version[r],
         NEW S \in SUBSET inflight, From(S, inflight')
  PROVE  NotAhead'
<1>1. ASSUME NEW q \in inflight', NEW r \in Request
      PROVE  q.got[r] <= version'[r]
  <2>1. CASE Fresh(q)
    BY <2>1, Numbers DEF Fresh, NoCopies
  <2>2. ASSUME NEW p \in S, Same(q, p)
        PROVE  q.got[r] <= version'[r]
    BY <2>2 DEF NotAhead, Same
  <2> QED
    BY <1>1, <2>1, <2>2 DEF From
<1> QED
  BY <1>1 DEF NotAhead

\* What the lists hold stays current where a request was, or is now, announced.
LEMMA ListsStay ==
  ASSUME TypeInv, PendingInv, HistoryInv,
         UNCHANGED <<current, pending, history, loadedFor, historyFor, historyNext, known>>,
         \A r \in Request : Announced(r)' \/ (version'[r] = version[r] /\ ~Announced(r)),
         \A r \in Request : version[r] = Closed => version'[r] = Closed
  PROVE  PendingInv' /\ HistoryInv'
<1>1. PendingInv'
  BY DEF PendingInv, loaded, Of
<1>2. HistoryInv'
  BY DEF HistoryInv, historyLoaded, Of
<1> QED
  BY <1>1, <1>2

\* The lists of a workspace that was just entered hold nothing.
LEMMA EnteredCurrent ==
  ASSUME TypeInv, NEW w \in Workspace, Enter(w)
  PROVE  PendingInv' /\ HistoryInv'
<1>1. /\ loadedFor' = None /\ historyFor' = None /\ current' = w /\ None # w
      /\ history' = NoCopies
  BY InterfaceAssumption DEF Enter
<1>2. ~loaded' /\ ~historyLoaded' /\ \A r \in Request : history'[r] = 0
  BY <1>1 DEF loaded, historyLoaded, NoCopies
<1>3. Closed # 0
  BY Versions DEF TypeInv
<1> QED
  BY <1>2, <1>3 DEF PendingInv, HistoryInv

LEMMA PersonCurrent ==
  ASSUME TypeInv, CurrentInv, Person
  PROVE  CurrentInv'
<1>1. UNCHANGED <<server, known, behind>>
  BY DEF Person, Switch, Enter, OpenPage, LeavePage, Close, Vote, SavePolicy, ReloadPolicy, Retry,
         RetryHistory, LoadMore, ShowTab, Select, SendPayment, Show, Move, ghosts
<1>2. From(inflight, inflight')
  BY PersonCalls
<1>3. \A r \in Request : (Announced(r)' <=> Announced(r)) /\ Follows(r)
  BY <1>1 DEF server, Announced, Heard, Follows
<1>4. \A q \in inflight' : Recalls(q)'
  BY <1>2, <1>3, RecallsStay DEF CurrentInv
<1>5. NotAhead'
  <2>1. \A r \in Request : known'[r] <= version[r]
    BY <1>1 DEF CurrentInv, NotAhead
  <2> QED
    BY <1>1, <1>2, <2>1, NotAheadStays DEF CurrentInv, server
<1>6. PendingInv' /\ HistoryInv'
  <2>1. ASSUME NEW w \in Workspace, Switch(w)
        PROVE  PendingInv' /\ HistoryInv'
    BY <2>1, EnteredCurrent DEF Switch
  <2>2. CASE UNCHANGED <<tabs, loadedFor, historyFor, historyNext, known, behind>>
    BY <1>1, <1>3, <2>2, ListsStay DEF tabs, CurrentInv, server
  <2> QED
    BY <2>1, <2>2, PersonLists
<1> QED
  BY <1>4, <1>5, <1>6 DEF CurrentInv

\* The server moves on: what is published is announced.
LEMMA ServerMoves ==
  ASSUME TypeInv, NotAhead, NEW r \in Request, version[r] < Closed, NEW v \in Step(r),
         version' = [version EXCEPT ![r] = v], Publish(r, v), UNCHANGED <<known, behind>>
  PROVE  /\ \A s \in Request : version[s] <= version'[s]
         /\ \A s \in Request : Announced(s)' \/ (version'[s] = version[s] /\ ~Announced(s))
         /\ \A s \in Request : Follows(s)
         /\ \A s \in Request : version[s] = Closed => version'[s] = Closed
         /\ \A s \in Request : known'[s] <= version'[s]
         /\ \A e \in stream' : e[2] <= version'[e[1]]
<1>1. /\ v \in Version /\ v # 0 /\ version[r] < v /\ v \in Nat
      /\ version'[r] = v /\ \A s \in Request \ {r} : version'[s] = version[s]
  BY StepUp, Versions DEF TypeInv, TypeOK, Copies
<1>2. stream' = stream \cup {<<r, v>>}
  BY DEF Publish
<1>3. \A s \in Request : version[s] <= version'[s]
  BY <1>1, Numbers
<1>4. \A s \in Request : Announced(s)' \/ (version'[s] = version[s] /\ ~Announced(s))
  BY <1>1, <1>2 DEF Announced
<1>5. \A s \in Request : Follows(s)
  BY <1>4 DEF Follows, Heard
<1>6. \A s \in Request : version[s] = Closed => version'[s] = Closed
  BY <1>1, Numbers
<1>7. ASSUME NEW s \in Request
      PROVE  known'[s] <= version'[s]
  <2>1. known[s] <= version[s] /\ version[s] <= version'[s]
    BY <1>3 DEF NotAhead
  <2>2. {known[s], version[s], version'[s]} \subseteq Nat
    BY <1>1, Numbers
  <2> QED
    BY <2>1, <2>2
<1>8. ASSUME NEW e \in stream'
      PROVE  e[2] <= version'[e[1]]
  <2>1. CASE e = <<r, v>>
    BY <1>1, <2>1
  <2>2. CASE e \in stream
    <3>1. e[1] \in Request /\ e[2] \in Nat /\ e[2] <= version[e[1]]
      BY <2>2, Versions DEF TypeInv, TypeOK, NotAhead
    <3> QED
      BY <1>1, <1>3, <3>1, Numbers
  <2> QED
    BY <1>2, <1>8, <2>1, <2>2
<1> QED
  BY <1>3, <1>4, <1>5, <1>6, <1>7, <1>8

LEMMA OthersCurrent ==
  ASSUME TypeInv, CurrentInv, NEW r \in Request, OthersAct(r)
  PROVE  CurrentInv'
<1>0. UNCHANGED <<current, lists, inflight, ghosts>>
  BY DEF OthersAct
<1>1. /\ \A s \in Request : version[s] <= version'[s]
      /\ \A s \in Request : Announced(s)' \/ (version'[s] = version[s] /\ ~Announced(s))
      /\ \A s \in Request : Follows(s)
      /\ \A s \in Request : version[s] = Closed => version'[s] = Closed
      /\ \A s \in Request : known'[s] <= version'[s]
      /\ \A e \in stream' : e[2] <= version'[e[1]]
  BY ServerMoves DEF OthersAct, CurrentInv, ghosts
<1>2. \A q \in inflight' : Recalls(q)'
  BY <1>0, <1>1, KeptCalls, RecallsStay DEF CurrentInv
<1>3. \A q \in inflight', s \in Request : q.got[s] <= version'[s]
  <2>1. version' \in Copies
    BY OthersTypes DEF TypeInv, TypeOK
  <2>2. \A s \in Request : version'[s] \in Nat
    BY <2>1, Versions DEF TypeInv, Copies
  <2> QED
    BY <1>0, <1>1, <2>2, Numbers DEF CurrentInv, NotAhead
<1>4. PendingInv' /\ HistoryInv'
  BY <1>0, <1>1, ListsStay DEF CurrentInv, lists, ghosts
<1> QED
  BY <1>1, <1>2, <1>3, <1>4 DEF CurrentInv, NotAhead

\* A request that expires was lost to the tab.
LEMMA ExpiresCurrent ==
  ASSUME TypeInv, CurrentInv, NEW r \in Request, Expires(r)
  PROVE  CurrentInv'
<1>0. /\ UNCHANGED <<stream, current, lists, inflight, known>>
      /\ behind' = behind \cup {r}
      /\ version[r] \in Nat /\ version[r] <= Closed /\ Closed \in Nat
      /\ version'[r] = Closed /\ \A s \in Request \ {r} : version'[s] = version[s]
  BY Numbers DEF Expires, TypeInv, TypeOK, Copies
<1>1. /\ \A s \in Request : version'[s] \in Nat /\ version[s] <= version'[s]
      /\ \A s \in Request : version[s] = Closed => version'[s] = Closed
  BY <1>0, Numbers
<1>2. \A s \in Request : Announced(s)' \/ (version'[s] = version[s] /\ ~Announced(s))
  BY <1>0 DEF Announced
<1>3. \A s \in Request : Follows(s)
  BY <1>0, <1>2 DEF Follows, Heard
<1>4. \A q \in inflight' : Recalls(q)'
  BY <1>0, <1>3, KeptCalls, RecallsStay DEF CurrentInv
<1>5. NotAhead'
  <2>1. \A s \in Request : known'[s] <= version'[s]
    BY <1>0, <1>1, Numbers DEF CurrentInv, NotAhead
  <2>2. \A q \in inflight', s \in Request : q.got[s] <= version'[s]
    BY <1>0, <1>1, Numbers DEF CurrentInv, NotAhead
  <2>3. ASSUME NEW e \in stream'
        PROVE  e[2] <= version'[e[1]]
    <3>1. e[1] \in Request /\ e[2] \in Nat /\ e[2] <= version[e[1]]
      BY <1>0, Versions DEF TypeInv, TypeOK, CurrentInv, NotAhead
    <3> QED
      BY <1>1, <3>1, Numbers
  <2> QED
    BY <2>1, <2>2, <2>3 DEF NotAhead
<1>6. PendingInv' /\ HistoryInv'
  BY <1>0, <1>1, <1>2, ListsStay DEF CurrentInv, lists
<1> QED
  BY <1>4, <1>5, <1>6 DEF CurrentInv

LEMMA FollowCurrent ==
  ASSUME TypeInv, CurrentInv, NEW q \in inflight, Follow(q)
  PROVE  CurrentInv'
<1>1. UNCHANGED <<server, known, behind>> /\ From(inflight, inflight')
  BY FollowCalls DEF Follow, Enter
<1>2. \A r \in Request : Follows(r)
  BY <1>1 DEF server, Announced, Heard, Follows
<1>3. \A p \in inflight' : Recalls(p)'
  BY <1>1, <1>2, RecallsStay DEF CurrentInv
<1>4. NotAhead'
  <2>1. \A r \in Request : known'[r] <= version[r]
    BY <1>1 DEF CurrentInv, NotAhead
  <2> QED
    BY <1>1, <2>1, NotAheadStays DEF CurrentInv, server
<1>5. PendingInv' /\ HistoryInv'
  <2>1. WorkspaceOf[q.request] \in Workspace
    BY FollowCalls DEF TypeInv, ListsAssumption
  <2> QED
    BY <2>1, EnteredCurrent DEF Follow
<1> QED
  BY <1>3, <1>4, <1>5 DEF CurrentInv

LEMMA HandleCurrent ==
  ASSUME TypeInv, CurrentInv, NEW q \in inflight, Handle(q)
  PROVE  CurrentInv'
<1>0. UNCHANGED <<current, lists, ghosts>> /\ inflight \ {q} \in SUBSET inflight
  BY DEF Handle
<1>1. TypeInv'
  BY HandleTypes
<1>2. ASSUME NEW p \in Calls, inflight' = (inflight \ {q}) \cup {p},
             Recalls(p)', \A s \in Request : p.got[s] <= version'[s],
             \A s \in Request : version[s] <= version'[s],
             \A s \in Request : Announced(s)' \/ (version'[s] = version[s] /\ ~Announced(s)),
             \A s \in Request : Follows(s),
             \A s \in Request : version[s] = Closed => version'[s] = Closed,
             \A s \in Request : known'[s] <= version'[s],
             \A e \in stream' : e[2] <= version'[e[1]]
      PROVE  CurrentInv'
  <2>1. \A c \in inflight \ {q} : Recalls(c)'
    BY <1>0, <1>2, KeptCalls, RecallsStay DEF CurrentInv
  <2>2. \A s \in Request : version'[s] \in Nat
    BY <1>1, Versions DEF TypeInv, TypeOK, Copies
  <2>3. \A c \in inflight \ {q}, s \in Request : c.got[s] <= version'[s]
    BY <1>2, <2>2, Numbers DEF CurrentInv, NotAhead
  <2>4. PendingInv' /\ HistoryInv'
    BY <1>0, <1>2, ListsStay DEF CurrentInv, lists, ghosts
  <2> QED
    BY <1>2, <2>1, <2>3, <2>4 DEF CurrentInv, NotAhead
<1>3. CASE Read(q)
  <2>1. PICK p \in Calls :
           /\ inflight' = (inflight \ {q}) \cup {p}
           /\ \A r \in Request : p.got[r] \in {0, version[r]}
           /\ p.kind \in {"reload", "history", "more"}
                => \A r \in Request : p.got[r] = IF r \in Of(p.workspace) THEN version[r] ELSE 0
    BY <1>3, ReadAnswer
  <2>2. UNCHANGED <<server, known, behind>>
    BY <1>0, <1>3 DEF Read, ghosts
  <2>3. Recalls(p)'
    BY <2>1, <2>2 DEF Recalls, Of, server
  <2>4. \A s \in Request : p.got[s] <= version'[s] /\ version[s] <= version'[s]
    BY <2>1, <2>2, Numbers DEF server
  <2>5. \A s \in Request : (Announced(s)' <=> Announced(s)) /\ Follows(s)
    BY <2>2 DEF server, Announced, Heard, Follows
  <2> QED
    BY <1>2, <2>1, <2>2, <2>3, <2>4, <2>5 DEF server, CurrentInv, NotAhead
<1>4. CASE Change(q)
  <2> DEFINE r == q.request
  <2>1. PICK v \in Step(r) :
              /\ q.kind \in {"vote", "send"} /\ r \in Request
              /\ version[r] < Closed
              /\ version' = [version EXCEPT ![r] = v]
              /\ Publish(r, v)
              /\ \E p \in Calls : Brought(p, q, v)
    BY <1>4, ChangeAnswer
  <2>2. PICK p \in Calls : Brought(p, q, v)
    BY <2>1
  <2>3. /\ inflight' = (inflight \ {q}) \cup {p}
        /\ p.kind \in {"vote", "send"}
        /\ \A s \in Request : p.got[s] \in {0, v} /\ (p.got[s] = v => s = r)
    BY <2>1, <2>2 DEF Brought
  <2>4. Recalls(p)'
    BY <2>3 DEF Recalls
  <2>5. version'[r] = v /\ \A s \in Request : version'[s] \in Nat
    BY <1>1, <2>1, Versions DEF TypeInv, TypeOK, Copies
  <2>6. \A s \in Request : p.got[s] <= version'[s]
    BY <2>3, <2>5
  <2>7. /\ \A s \in Request : version[s] <= version'[s]
        /\ \A s \in Request : Announced(s)' \/ (version'[s] = version[s] /\ ~Announced(s))
        /\ \A s \in Request : Follows(s)
        /\ \A s \in Request : version[s] = Closed => version'[s] = Closed
        /\ \A s \in Request : known'[s] <= version'[s]
        /\ \A e \in stream' : e[2] <= version'[e[1]]
    BY <1>0, <2>1, ServerMoves DEF CurrentInv, ghosts
  <2> HIDE DEF r
  <2> QED
    BY <1>2, <2>3, <2>4, <2>6, <2>7
<1> QED
  BY <1>3, <1>4 DEF Handle

\* An update that comes to the tab, from an event or as an answer.
LEMMA AppliedCurrent ==
  ASSUME TypeInv, CurrentInv, version' = version, NEW r \in Request, NEW v \in Version, v # 0,
         v <= version[r], NEW w, applyUpdate(r, v, w),
         stream' = stream \/ (stream' = stream \ {<<r, v>>} /\ w = current),
         UNCHANGED <<current, loadedFor, historyFor, historyNext>>,
         NEW S \in SUBSET inflight, From(S, inflight')
  PROVE  CurrentInv'
<1>1. /\ \A s \in Request : known'[s] <= version[s]
      /\ \A s \in Request : known[s] = version[s] => known'[s] = version[s]
      /\ \A s \in Request \ {r} : Announced(s) => Announced(s)'
      /\ v = version[r] => known'[r] = version[r]
      /\ v # version[r] => (Announced(r) => Announced(r)')
      /\ v # version[r] /\ known[r] = version[r] => Announced(r)'
  BY AppliedOf DEF CurrentInv
<1>2. /\ \A s \in Request \ {r} :
           known'[s] = known[s] /\ history'[s] = history[s] /\ pending'[s] = pending[s]
      /\ WorkspaceOf[r] # w => UNCHANGED <<updates, history, pending>>
      /\ WorkspaceOf[r] = w =>
           /\ pending'[r] = Shown(v)
           /\ history'[r] = IF IsPending(v) THEN history[r] ELSE Closed
  BY Applied
<1>3. \A s \in Request : Follows(s)
  BY <1>1 DEF Follows, Heard
<1>4. \A q \in inflight' : Recalls(q)'
  BY <1>3, RecallsStay DEF CurrentInv
<1>5. NotAhead'
  BY <1>1, NotAheadStays DEF CurrentInv
<1>6. PendingInv'
  <2> SUFFICES ASSUME loaded', NEW s \in Of(current)
               PROVE  \/ known'[s] = version[s] /\ pending'[s] = Shown(version[s])
                      \/ Announced(s)'
    BY DEF PendingInv, Of
  <2>1. /\ s \in Request
        /\ \/ known[s] = version[s] /\ pending[s] = Shown(version[s])
           \/ Announced(s)
    BY DEF CurrentInv, PendingInv, loaded, Of
  <2>2. CASE s # r
    BY <1>1, <1>2, <2>1, <2>2
  <2>3. CASE s = r /\ WorkspaceOf[r] = w
    BY <1>1, <1>2, <2>1, <2>3
  <2>4. CASE s = r /\ WorkspaceOf[r] # w
    <3>1. stream' = stream
      BY <2>4 DEF Of
    <3>2. behind \subseteq behind'
      BY Applied
    <3> QED
      BY <1>1, <1>2, <2>1, <2>4, <3>1, <3>2 DEF Announced
  <2> QED
    BY <2>2, <2>3, <2>4
<1>7. HistoryInv'
  <2>1. \A s \in Request : /\ history[s] \in {0, Closed}
                           /\ history[s] = Closed => version[s] = Closed
    BY DEF CurrentInv, HistoryInv
  <2>2. ~IsPending(v) => v = Closed /\ version[r] = Closed
    BY Versions, Numbers DEF TypeInv
  <2>3. \A s \in Request : /\ history'[s] \in {0, Closed}
                           /\ history'[s] = Closed => version[s] = Closed
                           /\ history[s] = Closed => history'[s] = Closed
    BY <1>2, <2>1, <2>2
  <2>4. ASSUME historyLoaded', NEW s \in Of(current), version[s] = Closed
        PROVE  \/ history'[s] = Closed \/ Announced(s)'
               \/ s \notin Recent /\ historyNext' /\ known'[s] = Closed
    <3>1. /\ s \in Request
          /\ \/ history[s] = Closed \/ Announced(s)
             \/ s \notin Recent /\ historyNext /\ known[s] = Closed
      BY <2>4 DEF CurrentInv, HistoryInv, historyLoaded, Of
    <3>2. CASE history[s] = Closed
      BY <2>3, <3>1, <3>2
    <3>3. CASE s \notin Recent /\ historyNext /\ known[s] = Closed
      BY <1>1, <2>4, <3>1, <3>3
    <3>4. CASE Announced(s)
      <4>1. CASE s # r \/ v # version[r]
        BY <1>1, <3>1, <3>4, <4>1
      <4>2. CASE s = r /\ v = version[r] /\ WorkspaceOf[r] = w
        <5>1. ~IsPending(v)
          BY <2>4, <4>2, Versions DEF TypeInv
        <5> QED
          BY <1>2, <4>2, <5>1
      <4>3. CASE s = r /\ WorkspaceOf[r] # w
        <5>1. stream' = stream
          BY <4>3 DEF Of
        <5>2. behind \subseteq behind'
          BY Applied
        <5> QED
          BY <3>4, <5>1, <5>2 DEF Announced
      <4> QED
        BY <4>1, <4>2, <4>3
    <3> QED
      BY <3>1, <3>2, <3>3, <3>4
  <2> QED
    BY <2>3, <2>4 DEF HistoryInv, Of
<1> QED
  BY <1>4, <1>5, <1>6, <1>7 DEF CurrentInv

LEMMA EventCurrent ==
  ASSUME TypeInv, CurrentInv, NEW e \in stream, Event(e)
  PROVE  CurrentInv'
<1>0. /\ e[1] \in Request /\ e[2] \in Version /\ e[2] # 0 /\ page \in Page
      /\ e = <<e[1], e[2]>> /\ e[2] <= version[e[1]]
  BY DEF TypeInv, TypeOK, CurrentInv, NotAhead
<1>1. /\ stream' = stream \ {e}
      /\ UNCHANGED <<version, current, loadedFor, historyFor, historyNext>>
  BY DEF Event
<1>2. CASE applyUpdate(e[1], e[2], current) /\ Effects(page, inflight, loaded, WorkspaceOf[e[1]] = current)
  <2>1. {updates', pending'} \subseteq Copies
    BY <1>0, <1>2, Applied
  <2>2. \A q \in inflight' \ inflight : Fresh(q)
    BY <1>0, <1>2, <2>1, Effected
  <2>3. From(inflight, inflight')
    BY <2>2, KeptCalls DEF From
  <2>4. stream' = stream \ {<<e[1], e[2]>>}
    BY <1>0, <1>1
  <2> QED
    BY <1>0, <1>1, <1>2, <2>3, <2>4, AppliedCurrent
<1>3. CASE /\ behind' = behind \cup {e[1]}
           /\ UNCHANGED <<updates, history, pending, page, inflight, known>>
  <2>1. \A s \in Request : Announced(s) => Announced(s)'
    BY <1>0, <1>1, <1>3 DEF Announced
  <2>2. \A s \in Request : Follows(s) /\ (Announced(s)' \/ (version'[s] = version[s] /\ ~Announced(s)))
    BY <1>1, <1>3, <2>1 DEF Follows, Heard
  <2>3. \A q \in inflight' : Recalls(q)'
    BY <1>3, <2>2, KeptCalls, RecallsStay DEF CurrentInv
  <2>4. NotAhead'
    BY <1>1, <1>3 DEF CurrentInv, NotAhead
  <2>5. PendingInv' /\ HistoryInv'
    BY <1>1, <1>3, <2>2, ListsStay DEF CurrentInv
  <2> QED
    BY <2>3, <2>4, <2>5 DEF CurrentInv
<1> QED
  BY <1>2, <1>3 DEF Event

\* What an answer with the lists of its workspace does to what is known.
LEMMA LearnedCurrent ==
  ASSUME TypeInv, CurrentInv, UNCHANGED server, NEW q \in inflight,
         NEW rs \in SUBSET Request, Learn(rs, q.got),
         NEW S \in SUBSET inflight, From(S, inflight')
  PROVE  NotAhead' /\ \A p \in inflight' : Recalls(p)'
<1>1. /\ \A r \in Request : known'[r] <= version[r]
      /\ \A r \in Request : known[r] = version[r] => known'[r] = version[r]
      /\ \A r \in Request : Announced(r) => Announced(r)'
  BY LearnedOf DEF CurrentInv
<1>2. \A r \in Request : Follows(r)
  BY <1>1 DEF server, Follows, Heard
<1> QED
  BY <1>1, <1>2, RecallsStay, NotAheadStays DEF CurrentInv, server

\* The answer with the pending requests.
LEMMA ReloadCurrent ==
  ASSUME TypeInv, CurrentInv, UNCHANGED <<server, current>>, NEW q \in inflight,
         q.kind = "reload", q.status = "ok", IsCurrent(q),
         pending' = Only(q.got, PendingIn(q.got)), Learn(Of(q.workspace), q.got),
         UNCHANGED <<history, historyFor, historyNext>>
  PROVE  PendingInv' /\ HistoryInv'
<1>0. Of(current) = Of(q.workspace) /\ Of(current) \in SUBSET Request /\ q.got \in Copies
  BY DEF IsCurrent, Of, TypeInv, TypeOK, Calls
<1>1. /\ \A r \in Request : known[r] = version[r] => known'[r] = version[r]
      /\ \A r \in Request : Announced(r) => Announced(r)'
      /\ \A r \in Of(current) : q.got[r] = version[r] => known'[r] = version[r]
      /\ \A r \in Of(current) : known[r] = version[r] /\ q.got[r] # version[r] => Announced(r)'
  BY <1>0, LearnedOf DEF CurrentInv
<1>2. \A r \in Of(current) : q.got[r] = version[r] \/ known[r] = version[r] \/ Announced(r)
  BY <1>0 DEF CurrentInv, Recalls
<1>3. \A r \in Request : pending'[r] = Shown(q.got[r])
  BY <1>0, OnlyTypes DEF PendingIn, Shown, TypeInv
<1>4. PendingInv'
  BY <1>0, <1>1, <1>2, <1>3 DEF PendingInv, Of, server
<1>5. HistoryInv'
  <2>1. historyLoaded' = historyLoaded
    BY DEF historyLoaded
  <2> QED
    BY <1>0, <1>1, <2>1 DEF CurrentInv, HistoryInv, Of, server
<1> QED
  BY <1>4, <1>5

\* The answer with the first page of the history.
LEMMA LoadCurrent ==
  ASSUME TypeInv, CurrentInv, UNCHANGED <<server, current>>, NEW q \in inflight,
         q.kind = "history", q.status = "ok", IsCurrent(q),
         history' = Only(q.got, ClosedIn(q.got) \cap Recent),
         historyNext' = (ClosedIn(q.got) \ Recent # {}), Learn(Of(q.workspace), q.got),
         UNCHANGED <<pending, loadedFor>>
  PROVE  PendingInv' /\ HistoryInv'
<1>0. Of(current) = Of(q.workspace) /\ Of(current) \in SUBSET Request /\ q.got \in Copies
  BY DEF IsCurrent, Of, TypeInv, TypeOK, Calls
<1>1. /\ \A r \in Request : known[r] = version[r] => known'[r] = version[r]
      /\ \A r \in Request : Announced(r) => Announced(r)'
      /\ \A r \in Of(current) : q.got[r] = version[r] => known'[r] = version[r]
      /\ \A r \in Of(current) : known[r] = version[r] /\ q.got[r] # version[r] => Announced(r)'
  BY <1>0, LearnedOf DEF CurrentInv
<1>2. \A r \in Of(current) : q.got[r] = version[r] \/ known[r] = version[r] \/ Announced(r)
  BY <1>0 DEF CurrentInv, Recalls
<1>3. /\ \A r \in Request : history'[r] = IF r \in ClosedIn(q.got) \cap Recent THEN q.got[r] ELSE 0
      /\ \A r \in Request : r \in ClosedIn(q.got) <=> q.got[r] = Closed
  BY <1>0, OnlyTypes DEF TypeInv, ClosedIn
<1>4. \A r \in Request : q.got[r] = Closed => version[r] = Closed
  BY Numbers DEF CurrentInv, NotAhead
<1>5. PendingInv'
  BY <1>0, <1>1 DEF CurrentInv, PendingInv, loaded, Of, server
<1>6. HistoryInv'
  <2>1. \A r \in Request :
           history'[r] \in {0, Closed} /\ (history'[r] = Closed => version'[r] = Closed)
    BY <1>3, <1>4, Versions DEF TypeInv, server
  <2>2. ASSUME NEW r \in Of(current), version[r] = Closed
        PROVE  \/ history'[r] = Closed \/ Announced(r)'
               \/ r \notin Recent /\ historyNext' /\ known'[r] = Closed
    <3>1. CASE q.got[r] = version[r]
      BY <1>0, <1>1, <1>3, <2>2, <3>1
    <3>2. CASE q.got[r] # version[r]
      BY <1>0, <1>1, <1>2, <2>2, <3>2
    <3> QED
      BY <3>1, <3>2
  <2> QED
    BY <1>0, <2>1, <2>2 DEF HistoryInv, Of, server
<1> QED
  BY <1>5, <1>6

\* The answer with the older page.
LEMMA MoreCurrent ==
  ASSUME TypeInv, CurrentInv, UNCHANGED <<server, current>>, NEW q \in inflight,
         q.kind = "more", q.status = "ok", IsCurrent(q),
         history' = [r \in Request |-> IF history[r] = 0 /\ r \in ClosedIn(q.got) \ Recent
                                       THEN Closed ELSE history[r]],
         Learn((ClosedIn(q.got) \ Recent) \cup Missed(q), q.got),
         UNCHANGED <<pending, loadedFor, historyFor>>
  PROVE  PendingInv' /\ HistoryInv'
<1> DEFINE rs == (ClosedIn(q.got) \ Recent) \cup Missed(q)
<1>0. Of(current) = Of(q.workspace) /\ Of(current) \in SUBSET Request /\ rs \in SUBSET Request
  BY DEF IsCurrent, Of, ClosedIn, Missed
<1>1. /\ \A r \in Request : known[r] = version[r] => known'[r] = version[r]
      /\ \A r \in Request : Announced(r) => Announced(r)'
      /\ \A r \in rs : known[r] = version[r] /\ q.got[r] # version[r] => Announced(r)'
  <2> HIDE DEF rs
  <2> QED
    BY <1>0, LearnedOf DEF CurrentInv, rs
<1>2. \A r \in Request : q.got[r] = Closed => version[r] = Closed
  BY Numbers DEF CurrentInv, NotAhead
<1>3. PendingInv'
  BY <1>0, <1>1 DEF CurrentInv, PendingInv, loaded, Of, server
<1>4. HistoryInv'
  <2>0. \A r \in Request : /\ history[r] \in {0, Closed}
                           /\ history[r] = Closed => version[r] = Closed
    BY DEF CurrentInv, HistoryInv
  <2>1. \A r \in Request : /\ history'[r] \in {0, Closed}
                           /\ history'[r] = Closed => version'[r] = Closed
                           /\ history[r] = Closed => history'[r] = Closed
    BY <1>2, <2>0, Versions DEF TypeInv, server, ClosedIn
  <2>2. ASSUME historyLoaded, NEW r \in Of(current), version[r] = Closed
        PROVE  history'[r] = Closed \/ Announced(r)'
    <3>1. \/ history[r] = Closed \/ Announced(r)
          \/ r \notin Recent /\ known[r] = Closed
      BY <2>2 DEF CurrentInv, HistoryInv
    <3>2. CASE r \notin Recent /\ known[r] = Closed /\ history[r] = 0
      <4>1. CASE q.got[r] = Closed
        BY <1>0, <3>2, <4>1 DEF ClosedIn
      <4>2. CASE q.got[r] # Closed
        <5>1. r \in rs
          BY <1>0, <2>2, <3>2, <4>2 DEF Missed
        <5> QED
          BY <1>0, <1>1, <2>2, <3>2, <4>2, <5>1
      <4> QED
        BY <4>1, <4>2
    <3> QED
      BY <1>0, <1>1, <2>0, <2>1, <3>1, <3>2
  <2>3. historyLoaded' = historyLoaded
    BY DEF historyLoaded
  <2> QED
    BY <1>0, <2>1, <2>2, <2>3 DEF HistoryInv, Of, server
<1> QED
  BY <1>3, <1>4

LEMMA DeliverCurrent ==
  ASSUME TypeInv, CurrentInv, NEW q \in inflight, Deliver(q)
  PROVE  CurrentInv'
<1>0. /\ UNCHANGED <<server, current>>
      /\ q \in Calls /\ Fits(q) /\ q.got \in Copies /\ page \in Page
      /\ PageClosed \in Page /\ Of(q.workspace) \in SUBSET Request
  BY Versions DEF Deliver, TypeInv, TypeOK, Calls, Page, PageClosed, Of
<1>1. Others(q) \in SUBSET inflight /\ From(Others(q), Others(q))
  BY KeptCalls DEF Others
<1>2. ASSUME UNCHANGED <<pending, history, loadedFor, historyFor, historyNext, known, behind>>,
             From(Others(q), inflight')
      PROVE  CurrentInv'
  <2>1. \A r \in Request : (Announced(r)' <=> Announced(r)) /\ Follows(r)
    BY <1>0, <1>2 DEF server, Announced, Heard, Follows
  <2>2. \A p \in inflight' : Recalls(p)'
    BY <1>1, <1>2, <2>1, RecallsStay DEF CurrentInv
  <2>3. \A r \in Request : known'[r] <= version[r]
    BY <1>2 DEF CurrentInv, NotAhead
  <2>4. NotAhead'
    BY <1>0, <1>1, <1>2, <2>3, NotAheadStays DEF CurrentInv, server
  <2>5. PendingInv' /\ HistoryInv'
    BY <1>0, <1>2, <2>1, ListsStay DEF CurrentInv, server
  <2> QED
    BY <2>2, <2>4, <2>5 DEF CurrentInv
<1>3. ASSUME NEW p \in Page, NEW ready, NEW applied, Effects(p, Others(q), ready, applied),
             {updates', pending'} \subseteq Copies
      PROVE  From(Others(q), inflight')
  <2>1. \A c \in inflight' \ Others(q) : Fresh(c)
    BY <1>3, Effected
  <2> QED
    BY <1>1, <2>1 DEF From
<1>4. CASE reload(q)
  <2>1. CASE q.status = "ok" /\ IsCurrent(q)
    <3>1. /\ q.kind = "reload"
          /\ pending' = Only(q.got, PendingIn(q.got)) /\ Learn(Of(q.workspace), q.got)
          /\ Effects(page, Others(q), TRUE, FALSE)
          /\ UNCHANGED <<updates, history, historyFor, historyNext>>
      BY <1>4, <2>1 DEF reload
    <3>2. {updates', pending'} \subseteq Copies
      BY <1>0, <3>1, OnlyTypes DEF TypeInv, TypeOK
    <3>3. From(Others(q), inflight')
      BY <1>0, <1>3, <3>1, <3>2
    <3>4. NotAhead' /\ \A p \in inflight' : Recalls(p)'
      BY <1>0, <1>1, <3>1, <3>3, LearnedCurrent
    <3>5. PendingInv' /\ HistoryInv'
      BY <1>0, <2>1, <3>1, ReloadCurrent
    <3> QED
      BY <3>4, <3>5 DEF CurrentInv
  <2>2. CASE ~(q.status = "ok" /\ IsCurrent(q))
    BY <1>1, <1>2, <1>4, <2>2 DEF reload
  <2> QED
    BY <2>1, <2>2
<1>5. CASE loadHistory(q)
  <2>1. CASE q.status = "ok" /\ IsCurrent(q)
    <3>1. /\ q.kind = "history"
          /\ history' = Only(q.got, ClosedIn(q.got) \cap Recent)
          /\ historyNext' = (ClosedIn(q.got) \ Recent # {}) /\ Learn(Of(q.workspace), q.got)
          /\ UNCHANGED <<pending, loadedFor>> /\ inflight' = Others(q)
      BY <1>5, <2>1 DEF loadHistory
    <3>2. NotAhead' /\ \A p \in inflight' : Recalls(p)'
      BY <1>0, <1>1, <3>1, LearnedCurrent
    <3>3. PendingInv' /\ HistoryInv'
      BY <1>0, <2>1, <3>1, LoadCurrent
    <3> QED
      BY <3>2, <3>3 DEF CurrentInv
  <2>2. CASE ~(q.status = "ok" /\ IsCurrent(q))
    BY <1>1, <1>2, <1>5, <2>2 DEF loadHistory
  <2> QED
    BY <2>1, <2>2
<1>6. CASE loadMoreHistory(q)
  <2>1. CASE q.status = "ok" /\ IsCurrent(q)
    <3>1. /\ q.kind = "more"
          /\ history' = [r \in Request |-> IF history[r] = 0 /\ r \in ClosedIn(q.got) \ Recent
                                           THEN Closed ELSE history[r]]
          /\ Learn((ClosedIn(q.got) \ Recent) \cup Missed(q), q.got)
          /\ UNCHANGED <<pending, loadedFor, historyFor>> /\ inflight' = Others(q)
      BY <1>6, <2>1 DEF loadMoreHistory
    <3>2. (ClosedIn(q.got) \ Recent) \cup Missed(q) \in SUBSET Request
      BY DEF ClosedIn, Missed, Of
    <3>3. NotAhead' /\ \A p \in inflight' : Recalls(p)'
      BY <1>0, <1>1, <3>1, <3>2, LearnedCurrent
    <3>4. PendingInv' /\ HistoryInv'
      BY <1>0, <2>1, <3>1, MoreCurrent
    <3> QED
      BY <3>3, <3>4 DEF CurrentInv
  <2>2. CASE ~(q.status = "ok" /\ IsCurrent(q))
    BY <1>1, <1>2, <1>6, <2>2 DEF loadMoreHistory
  <2> QED
    BY <2>1, <2>2
<1>7. CASE reloadPolicy(q) \/ saved(q) \/ focused(q)
  BY <1>1, <1>2, <1>7 DEF reloadPolicy, saved, focused, lists, ghosts
<1>8. ASSUME q.kind \in {"vote", "send", "link"}, q.status = "ok", NEW p \in Page,
             applyUpdate(q.request, q.got[q.request], q.workspace),
             Effects(p, Others(q), loaded, WorkspaceOf[q.request] = q.workspace),
             UNCHANGED <<loadedFor, historyFor, historyNext>>
      PROVE  CurrentInv'
  <2>1. /\ q.request \in Request /\ q.got[q.request] \in Version /\ q.got[q.request] # 0
        /\ q.got[q.request] <= version[q.request]
    BY <1>0, <1>8 DEF Fits, Copies, CurrentInv, NotAhead
  <2>2. {updates', pending'} \subseteq Copies
    BY <1>8, <2>1, Applied
  <2>3. From(Others(q), inflight')
    BY <1>3, <1>8, <2>2
  <2> QED
    BY <1>0, <1>1, <1>8, <2>1, <2>3, AppliedCurrent DEF server
<1>9. CASE voted(q)
  <2> DEFINE p == [page EXCEPT !.busy = IF q.mine /\ @ = q.request THEN None ELSE @]
             shown == IF q.mine THEN [p EXCEPT !.selected = q.request, !.copy = q.got[q.request]]
                      ELSE p
  <2>1. shown \in Page
    BY <1>0, <1>9 DEF Page, Copies, voted, Fits
  <2>2. CASE q.status = "ok"
    BY <1>8, <1>9, <2>1, <2>2 DEF voted
  <2>3. CASE q.status # "ok"
    BY <1>1, <1>2, <1>9, <2>3 DEF voted, ghosts
  <2> QED
    BY <2>2, <2>3
<1>10. ASSUME q.kind \in {"send", "link"}, q.status = "ok", OpenedRequest(q),
              UNCHANGED <<loadedFor, historyFor, historyNext>>
       PROVE  CurrentInv'
  <2>1. RequestPage(q.request) \in Page
    BY <1>0, <1>10, RequestPages DEF Fits
  <2> QED
    BY <1>8, <1>10, <2>1 DEF OpenedRequest
<1>11. CASE sent(q)
  BY <1>1, <1>2, <1>10, <1>11 DEF sent, NothingBrought, ghosts
<1>12. CASE linked(q)
  <2>1. CASE q.status = "ok" /\ WorkspaceOf[q.request] = q.workspace
    BY <1>10, <1>12, <2>1 DEF linked
  <2>2. CASE ~(q.status = "ok" /\ WorkspaceOf[q.request] = q.workspace)
    <3>1. Fresh(Call("switch", q.workspace, q.request))
      BY <1>0, <1>12, AskedCall DEF linked, Fits, Calls, Kind
    <3>2. NothingBrought(inflight') /\ UNCHANGED <<loadedFor, historyFor, historyNext>>
      BY <1>12, <2>2 DEF linked, NothingBrought
    <3>3. inflight' \subseteq Others(q) \cup {Call("switch", q.workspace, q.request)}
      BY <1>12, <2>2 DEF linked, NothingBrought
    <3>4. From(Others(q), inflight')
      BY <1>1, <3>1, <3>3 DEF From
    <3> QED
      BY <1>2, <3>2, <3>4 DEF NothingBrought, ghosts
  <2> QED
    BY <2>1, <2>2
<1>13. CASE arrived(q)
  <2>1. CASE q.status = "ok"
    <3>1. RequestPage(q.request) \in Page
      BY <1>0, <1>13, RequestPages DEF arrived, Fits
    <3>2. Effects(RequestPage(q.request), Others(q), loaded, FALSE) /\ UNCHANGED <<lists, ghosts>>
      BY <1>13, <2>1 DEF arrived
    <3>3. {updates', pending'} \subseteq Copies
      BY <3>2 DEF lists, TypeInv, TypeOK
    <3> QED
      BY <1>2, <1>3, <3>1, <3>2, <3>3 DEF lists, ghosts
  <2>2. CASE q.status # "ok"
    BY <1>1, <1>2, <1>13, <2>2 DEF arrived, lists, ghosts
  <2> QED
    BY <2>1, <2>2
<1> QED
  BY <1>4, <1>5, <1>6, <1>7, <1>9, <1>11, <1>12, <1>13 DEF Deliver

LEMMA InitCurrent ==
  ASSUME TypeInv, Init
  PROVE  LoadsStayInTheirWorkspace /\ Spinning /\ CurrentInv
<1> DEFINE call == Call("reload", current, None)
<1>1. /\ stream = {} /\ ~loaded /\ ~historyLoaded
      /\ pending = NoCopies /\ history = NoCopies /\ updates = NoCopies /\ known = NoCopies
      /\ policyOf = None /\ loadingMore = FALSE /\ page.tab = "pending"
  BY InterfaceAssumption, ListsAssumption
     DEF Init, loaded, historyLoaded, PageClosed, TypeInv, TypeOK, ListsAssumption
<1>2. /\ call \in inflight /\ call.kind = "reload" /\ call.workspace = current
      /\ \A q \in inflight : q.status = "sent" /\ q.got = NoCopies
      /\ \A r \in Request : NoCopies[r] = 0
  BY DEF Init, Call, NoCopies
<1> HIDE DEF call
<1>3. LoadsStayInTheirWorkspace
  BY <1>1, <1>2 DEF LoadsStayInTheirWorkspace, Held
<1>4. Spinning
  BY <1>1, <1>2 DEF Spinning, Waits
<1>5. NotAhead
  BY <1>1, <1>2, Numbers DEF NotAhead
<1>6. (\A q \in inflight : Recalls(q)) /\ PendingInv /\ HistoryInv
  BY <1>1, <1>2, Numbers DEF Recalls, PendingInv, HistoryInv
<1> QED
  BY <1>3, <1>4, <1>5, <1>6 DEF CurrentInv

LEMMA CurrentStep ==
  ASSUME TypeInv, CurrentInv, [Next]_vars
  PROVE  CurrentInv'
<1>1. CASE Next
  BY <1>1, PersonCurrent, OthersCurrent, ExpiresCurrent, EventCurrent, HandleCurrent,
     DeliverCurrent, FollowCurrent DEF Next
<1>2. CASE UNCHANGED vars
  BY <1>2 DEF vars, server, lists, ghosts, CurrentInv, NotAhead, Recalls, PendingInv, HistoryInv,
              Announced, Of, loaded, historyLoaded
<1> QED
  BY <1>1, <1>2

LEMMA ListsInductive ==
  ListsAssumption /\ Spec => [](TypeInv /\ LoadsStayInTheirWorkspace /\ Spinning /\ CurrentInv)
<1>1. ListsAssumption /\ Init => TypeInv /\ LoadsStayInTheirWorkspace /\ Spinning /\ CurrentInv
  BY InitTypes, InitCurrent
<1>2. TypeInv /\ LoadsStayInTheirWorkspace /\ Spinning /\ CurrentInv /\ [Next]_vars
        => (TypeInv /\ LoadsStayInTheirWorkspace /\ Spinning /\ CurrentInv)'
  BY NextTypes, StaysStep, SpinningStep, CurrentStep
<1> QED
  BY <1>1, <1>2, PTL DEF Spec

\* Every list, page, request and answer keeps its type.
THEOREM ListsTypeCorrect == ListsAssumption /\ Spec => []TypeOK
<1>1. TypeInv => TypeOK
  BY DEF TypeInv
<1> QED
  BY <1>1, ListsInductive, PTL

\* However many answers and events come late after however many switches, the lists and the
\* policy of the tab are those of the workspace that is shown, but for what the answers to the
\* person's own actions and to the approval link brought after a switch.
THEOREM LoadsStay == ListsAssumption /\ Spec => []LoadsStayInTheirWorkspace
  BY ListsInductive, PTL

\* A tab of requests that says it loads, or loads more, has a request on its way.
THEOREM SpinnersHaveARequest == ListsAssumption /\ Spec => []SpinnerIsUnderWay
<1>1. Spinning => SpinnerIsUnderWay
  BY SpinningIsUnderWay
<1> QED
  BY <1>1, ListsInductive, PTL

\* With nothing on its way the lists are those of the server, for every order in which the
\* events and the answers came and whichever of them were lost; but for the requests whose
\* newest version was lost, or was overtaken by an older one, or that expired.
THEOREM QuietIsCurrent == ListsAssumption /\ Spec => []QuietListsAreCurrent
<1>1. TypeInv /\ CurrentInv => QuietListsAreCurrent
  BY DEF CurrentInv, PendingInv, HistoryInv, Announced, Shown, QuietListsAreCurrent, Settled, Of
<1> QED
  BY <1>1, ListsInductive, PTL
==============================================================================
