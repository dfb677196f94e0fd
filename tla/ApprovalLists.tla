---------------------------- MODULE ApprovalLists ----------------------------
(***************************************************************************)
(* The payment requests that the web interface shows (useApprovals, the    *)
(* Approvals page and its dialog, ApprovalPolicyCard, the payment_request  *)
(* events of useLiveTransactions) over a server where others create, vote  *)
(* on and close them, while the person moves between workspaces.  The tab  *)
(* may open with an approval link that waited for the sign-in (AppShell),  *)
(* which switches to the workspace of its request and opens it.            *)
(*                                                                         *)
(* A request is known by its version: the number of answers it had, and    *)
(* Closed after the last.  A copy of a request is a version of it, 0 for   *)
(* none.  Events are published after the commit, by several goroutines,    *)
(* and dropped when the subscriber's channel is full: they come in any     *)
(* order, or not.  A request that expires is closed from then on, and no   *)
(* event says so.  A request of the tab fails, or its answer is lost.      *)
(***************************************************************************)
EXTENDS WebInterface

CONSTANTS Request,
          WorkspaceOf,    \* [Request -> Workspace]: the workspace of each request
          Recent,         \* requests on the first page of the history
          Existing,       \* requests that exist when the tab opens
          Openings,       \* what the tab opens with: <<workspace, request of a link or None>>
          Votes,          \* answers that close a request, at least one
          LinkMoves,      \* what a link counts of the moves of the person
          MaxInflight     \* bound on the requests on their way when the person acts

ListsAssumption ==
  /\ WorkspaceOf \in [Request -> Workspace]
  /\ None \notin Request
  /\ Recent \subseteq Request
  /\ Existing \subseteq Request
  /\ Openings \subseteq Workspace \X (Request \cup {None})
  /\ Votes \in Nat \ {0}
  /\ LinkMoves \in Nat

VARIABLES
  version,     \* server: the version of each request, 0 before it exists
  stream,      \* events on their way to the tab: <<request, version>>
  current,     \* the workspace of the tab (currentWorkspace and workspaceId)
  policyOf,    \* the workspace whose policy is held
  pending, history, updates,   \* copies in the two lists and of what was seen live
  loadedFor, historyFor,       \* the workspaces the lists were loaded for
  historyNext,                 \* an older page exists
  failed, historyFailed, loadingMore,
  page,        \* the Approvals page and its dialog
  inflight,    \* requests of the tab on their way
  late,        \* what an answer to the person's own action or link brought after a switch
  known,       \* the newest version of each request that has reached the tab
  behind,      \* requests with a lost event or none, or of which something older came last
  moves        \* what the person did, a link that was opened included

server == <<version, stream>>
lists  == <<policyOf, pending, history, updates, loadedFor, historyFor, historyNext,
            failed, historyFailed, loadingMore>>
ghosts == <<late, known, behind>>
vars   == <<server, current, lists, page, inflight, ghosts, moves>>

Closed == Votes + 1
Version == 0 .. Closed
Copies == [Request -> Version]
NoCopies == [r \in Request |-> 0]

PageClosed == [open |-> FALSE, tab |-> "pending", focus |-> None, selected |-> None,
               copy |-> 0, busy |-> None]

Page == [open : BOOLEAN, tab : {"pending", "history"}, focus : Request \cup {None},
         selected : Request \cup {None}, copy : Version, busy : Request \cup {None}]

Kind == {"reload", "policy", "history", "more", "vote", "send", "save", "focus", "link", "switch"}
\* workspace: of the closure that asked; mine: the page that asked is still mounted.
Calls == [kind : Kind, workspace : Workspace, request : Request \cup {None}, mine : BOOLEAN,
          status : {"sent", "ok", "lost"}, got : Copies]

\* Mutation: workspace and request are swapped.
CallSwapped(kind, w, r) == [kind |-> kind, workspace |-> r, request |-> w, mine |-> TRUE,
                            status |-> "sent", got |-> NoCopies]

Call(kind, w, r) == [kind |-> kind, workspace |-> w, request |-> r, mine |-> TRUE,
                     status |-> "sent", got |-> NoCopies]

TypeOK ==
  /\ version \in Copies
  /\ stream \subseteq Request \X Version
  /\ current \in Workspace
  /\ policyOf \in Workspace \cup {None}
  /\ {pending, history, updates, known} \subseteq Copies
  /\ {loadedFor, historyFor} \subseteq Workspace \cup {None}
  /\ {historyNext, failed, historyFailed, loadingMore} \subseteq BOOLEAN
  /\ page \in Page
  /\ inflight \subseteq Calls
  /\ late \subseteq Request \cup Workspace
  /\ behind \subseteq Request
  /\ moves \in Nat

Init ==
  /\ version \in {v \in [Request -> {0, 1, Closed}] : \A r \in Request : v[r] = 0 <=> r \notin Existing}
  /\ stream = {}
  /\ policyOf = None
  /\ pending = NoCopies /\ history = NoCopies /\ updates = NoCopies
  /\ loadedFor = None /\ historyFor = None /\ historyNext = FALSE
  /\ failed = FALSE /\ historyFailed = FALSE /\ loadingMore = FALSE
  /\ page = [PageClosed EXCEPT !.open = TRUE]
  /\ \E o \in Openings :
       /\ current = o[1]
       /\ inflight = {Call("reload", current, None)}
                       \cup {Call("link", current, r) : r \in {o[2]} \ {None}}
       /\ moves = IF o[2] = None THEN 0 ELSE LinkMoves
  /\ late = {} /\ known = NoCopies /\ behind = {}

Of(w) == {r \in Request : WorkspaceOf[r] = w}
IsPending(v) == v \in 1 .. Votes

\* Of the copies of an answer, those a list takes.
Only(copies, rs) == [r \in Request |-> IF r \in rs THEN copies[r] ELSE 0]
PendingIn(copies) == {r \in Request : IsPending(copies[r])}
ClosedIn(copies)  == {r \in Request : copies[r] = Closed}

\* What the hook hands out.
loaded == loadedFor = current
historyLoaded == historyFor = current
hasMoreHistory == historyLoaded /\ historyNext
shownPending == IF loaded THEN pending ELSE NoCopies
------------------------------------------------------------------------------
(* The server.                                                              *)

\* A request is created, voted on, cancelled, or closed by its last vote.
Step(r) == IF IsPending(version[r]) THEN {version[r] + 1, Closed} ELSE {1}

Publish(r, v) == stream' = stream \cup {<<r, v>>}

OthersAct(r) ==
  /\ version[r] < Closed
  /\ \E v \in Step(r) : version' = [version EXCEPT ![r] = v] /\ Publish(r, v)
  /\ UNCHANGED <<current, lists, page, inflight, ghosts, moves>>

\* Its end passes; a vote whose handler has read the clock by then comes before it.
Expires(r) ==
  /\ IsPending(version[r])
  /\ version' = [version EXCEPT ![r] = Closed]
  /\ behind' = behind \cup {r}
  /\ UNCHANGED <<stream, current, lists, page, inflight, late, known, moves>>

Answered(q, status, got) == (inflight \ {q}) \cup {[q EXCEPT !.status = status, !.got = got]}

\* An answer carries what the server held when it handled the request.
Read(q) ==
  /\ q.kind \notin {"vote", "send"}
  /\ q.kind = "link" => version[q.request] # 0
  /\ inflight' = Answered(q, "ok",
       Only(version, CASE q.kind \in {"reload", "history", "more"} -> Of(q.workspace)
                       [] q.kind \in {"focus", "link"} -> {q.request}
                       [] OTHER -> {}))
  /\ UNCHANGED server

\* A vote or a cancellation, or a payment that is held for approval.
Change(q) ==
  /\ \/ q.kind = "vote" /\ IsPending(version[q.request])
     \/ q.kind = "send" /\ version[q.request] = 0
  /\ \E v \in Step(q.request) :
       /\ version' = [version EXCEPT ![q.request] = v]
       /\ Publish(q.request, v)
       /\ \/ inflight' = Answered(q, "ok", [NoCopies EXCEPT ![q.request] = v])
          \/ inflight' = Answered(q, "lost", NoCopies)

Handle(q) ==
  /\ q.status = "sent"
  /\ Read(q) \/ Change(q)
  /\ UNCHANGED <<current, lists, page, ghosts, moves>>
------------------------------------------------------------------------------
(* What reaches the tab.                                                    *)

\* The copies of rs reach the tab.
Learn(rs, copies) ==
  /\ known' = [r \in Request |-> IF r \in rs /\ copies[r] > known[r] THEN copies[r] ELSE known[r]]
  /\ behind' = behind \cup {r \in rs : known[r] > copies[r]}

\* Mutation: a request that is closed stays in the list.
PendingWithAlways(r, v) == [pending EXCEPT ![r] = v]

\* The other requests of the list, and this one if it is pending.
PendingWith(r, v) == [pending EXCEPT ![r] = IF IsPending(v) THEN v ELSE 0]

\* applyUpdate of the closure of workspace w.
applyUpdate(r, v, w) ==
  /\ IF WorkspaceOf[r] # w THEN UNCHANGED <<updates, history, pending>>
     ELSE /\ updates' = [updates EXCEPT ![r] = v]
          /\ history' = IF IsPending(v) THEN history ELSE [history EXCEPT ![r] = v]
          /\ pending' = PendingWith(r, v)
  /\ Learn({r}, [NoCopies EXCEPT ![r] = v])

\* The two effects of the page: its dialog goes back to the update of its request whenever
\* one of any request was applied, and the request it was opened for is taken from the list
\* that is ready, or asked for.
Effects(p, requests, ready, applied) ==
  LET live  == IF applied /\ p.open /\ p.selected # None /\ updates'[p.selected] # 0
               THEN [p EXCEPT !.copy = updates'[p.selected]] ELSE p
      shown == ready /\ p.focus # None /\ pending'[p.focus] # 0
  IN  /\ page' = IF p.open /\ shown
                 THEN [live EXCEPT !.selected = p.focus, !.copy = pending'[p.focus], !.focus = None]
                 ELSE live
      /\ inflight' = requests \cup IF p.open /\ p.focus # None /\ ~shown
                                   THEN {Call("focus", current, p.focus)} ELSE {}

\* handlers.current: the latest closure handles the event; or the event was dropped.
Event(e) ==
  /\ stream' = stream \ {e}
  /\ \/ /\ applyUpdate(e[1], e[2], current)
        /\ Effects(page, inflight, loaded, WorkspaceOf[e[1]] = current)
     \/ /\ behind' = behind \cup {e[1]}
        /\ UNCHANGED <<updates, history, pending, page, inflight, known>>
  /\ UNCHANGED <<version, current, policyOf, loadedFor, historyFor, historyNext, failed,
                 historyFailed, loadingMore, late, moves>>

Others(q) == inflight \ {q}

\* Mutation: whatever is answered is shown.
IsCurrentAlways(q) == TRUE

\* currentWorkspace.current === workspaceId
IsCurrent(q) == q.workspace = current

\* Mutation: the error is dropped.
reloadFailedSilently(q) == FALSE

reloadFailed(q) == IsCurrent(q)

reload(q) ==
  /\ q.kind = "reload"
  /\ IF q.status = "ok" /\ IsCurrent(q)
     THEN /\ policyOf' = q.workspace /\ loadedFor' = q.workspace
          /\ pending' = Only(q.got, PendingIn(q.got))
          /\ Learn(Of(q.workspace), q.got)
          /\ UNCHANGED <<failed, updates>>
          /\ Effects(page, Others(q), TRUE, FALSE)
     ELSE /\ failed' = (failed \/ (q.status # "ok" /\ reloadFailed(q)))
          /\ inflight' = Others(q)
          /\ UNCHANGED <<policyOf, pending, loadedFor, updates, page, known, behind>>
  /\ UNCHANGED <<history, historyFor, historyNext, historyFailed, loadingMore, late>>

\* A successful answer does not take back an earlier failure.
reloadPolicy(q) ==
  /\ q.kind = "policy"
  /\ policyOf' = IF q.status = "ok" /\ IsCurrent(q) THEN q.workspace ELSE policyOf
  /\ failed' = (failed \/ (q.status # "ok" /\ IsCurrent(q)))
  /\ inflight' = Others(q)
  /\ UNCHANGED <<pending, loadedFor, history, updates, historyFor, historyNext, historyFailed,
                 loadingMore, page, ghosts>>

loadHistory(q) ==
  /\ q.kind = "history"
  /\ inflight' = Others(q)
  /\ IF q.status = "ok" /\ IsCurrent(q)
     THEN /\ history' = Only(q.got, ClosedIn(q.got) \cap Recent)
          /\ historyFor' = q.workspace
          /\ historyNext' = (ClosedIn(q.got) \ Recent # {})
          /\ Learn(Of(q.workspace), q.got)
          /\ UNCHANGED historyFailed
     ELSE /\ historyFailed' = (historyFailed \/ (q.status # "ok" /\ IsCurrent(q)))
          /\ UNCHANGED <<history, historyFor, historyNext, known, behind>>
  /\ UNCHANGED <<policyOf, pending, loadedFor, updates, failed, loadingMore, page, late>>

\* Closed requests that the older page q does not bring, because it was read before they
\* closed, and that a later load of the first page has dropped.
Missed(q) == {r \in Of(q.workspace) \ Recent :
                q.got[r] # Closed /\ known[r] = Closed /\ history[r] = 0}

\* An older page adds what is not in the list; the spinner ends in any case.
loadMoreHistory(q) ==
  /\ q.kind = "more"
  /\ inflight' = Others(q)
  /\ loadingMore' = FALSE
  /\ IF q.status = "ok" /\ IsCurrent(q)
     THEN /\ history' = [r \in Request |-> IF history[r] = 0 /\ r \in ClosedIn(q.got) \ Recent
                                           THEN Closed ELSE history[r]]
          /\ historyNext' = FALSE
          /\ Learn((ClosedIn(q.got) \ Recent) \cup Missed(q), q.got)
     ELSE UNCHANGED <<history, historyNext, known, behind>>
  /\ UNCHANGED <<policyOf, pending, loadedFor, historyFor, updates, failed, historyFailed, page,
                 late>>

\* What the answer to an action leaves behind when its workspace is no longer shown.
Lately(q, what) == late' = IF IsCurrent(q) THEN late ELSE late \cup {what}

\* act of the dialog: the list of the closure's workspace, then the dialog, which opens
\* again if it was closed.
voted(q) ==
  LET r == q.request
      p == [page EXCEPT !.busy = IF q.mine /\ @ = r THEN None ELSE @]
  IN  /\ q.kind = "vote"
      /\ IF q.status = "ok"
         THEN /\ applyUpdate(r, q.got[r], q.workspace)
              /\ Effects(IF q.mine THEN [p EXCEPT !.selected = r, !.copy = q.got[r]] ELSE p,
                         Others(q), loaded, WorkspaceOf[r] = q.workspace)
              /\ Lately(q, r)
         ELSE /\ page' = p /\ inflight' = Others(q)
              /\ UNCHANGED <<updates, history, pending, ghosts>>
      /\ UNCHANGED <<policyOf, loadedFor, historyFor, historyNext, failed, historyFailed,
                     loadingMore>>

\* openRequest: the Approvals page, as it is or anew, with the request in its address.
RequestPage(r) == [(IF page.open THEN page ELSE PageClosed) EXCEPT !.open = TRUE, !.focus = r]

\* A request that was created or asked for goes to the lists of the closure and is opened.
OpenedRequest(q) ==
  LET r == q.request
  IN  /\ applyUpdate(r, q.got[r], q.workspace)
      /\ Effects(RequestPage(r), Others(q), loaded, WorkspaceOf[r] = q.workspace)
      /\ Lately(q, r)

NothingBrought(requests) == inflight' = requests /\ UNCHANGED <<updates, history, pending, page, ghosts>>

\* handleSend: the payment needs approval.
sent(q) ==
  /\ q.kind = "send"
  /\ IF q.status = "ok" THEN OpenedRequest(q) ELSE NothingBrought(Others(q))
  /\ UNCHANGED <<policyOf, loadedFor, historyFor, historyNext, failed, historyFailed, loadingMore>>

\* The effect of an approval link: the workspace that was active when it asked is compared.
linked(q) ==
  /\ q.kind = "link"
  /\ IF q.status = "ok" /\ WorkspaceOf[q.request] = q.workspace THEN OpenedRequest(q)
     ELSE NothingBrought(Others(q) \cup IF q.status = "ok"
                                        THEN {Call("switch", q.workspace, q.request)} ELSE {})
  /\ UNCHANGED <<policyOf, loadedFor, historyFor, historyNext, failed, historyFailed, loadingMore>>

\* Its switch has failed, or leads to where the person has gone by now.
arrived(q) ==
  /\ q.kind = "switch"
  /\ UNCHANGED <<lists, ghosts>>
  /\ IF q.status = "ok"
     THEN WorkspaceOf[q.request] = current /\ Effects(RequestPage(q.request), Others(q), loaded, FALSE)
     ELSE inflight' = Others(q) /\ UNCHANGED page

\* The policy card hands the saved policy to setPolicy, whatever workspace is shown by now.
saved(q) ==
  /\ q.kind = "save"
  /\ inflight' = Others(q)
  /\ IF q.status = "ok" THEN policyOf' = q.workspace /\ Lately(q, q.workspace)
     ELSE UNCHANGED <<policyOf, late>>
  /\ UNCHANGED <<pending, loadedFor, history, updates, historyFor, historyNext, failed,
                 historyFailed, loadingMore, page, known, behind>>

\* onFocusHandled clears the address in any case.
focused(q) ==
  LET p == [page EXCEPT !.focus = None]
  IN  /\ q.kind = "focus"
      /\ inflight' = Others(q)
      /\ page' = IF q.status = "ok" /\ q.mine THEN [p EXCEPT !.selected = q.request, !.copy = q.got[q.request]]
                 ELSE p
      /\ UNCHANGED <<lists, ghosts>>

\* A request that was not handled, or whose answer is lost, fails.
Deliver(q) ==
  /\ \/ reload(q) \/ reloadPolicy(q) \/ loadHistory(q) \/ loadMoreHistory(q) \/ voted(q)
     \/ sent(q) \/ saved(q) \/ focused(q) \/ linked(q) \/ arrived(q)
  /\ UNCHANGED <<server, current, moves>>
\* The effect of reload resets the lists for workspace w, but neither historyFailed nor the
\* spinner of an older page.
Enter(w) ==
  /\ current' = w
  /\ policyOf' = None
  /\ pending' = NoCopies /\ history' = NoCopies /\ updates' = NoCopies
  /\ loadedFor' = None /\ historyFor' = None /\ historyNext' = FALSE
  /\ failed' = FALSE
  /\ late' = {}
  /\ UNCHANGED <<historyFailed, loadingMore, known, behind>>

\* The link switches the workspace under the page, whose history tab loads again, and opens
\* its request there.
Follow(q) ==
  LET r == q.request
      w == WorkspaceOf[r]
  IN  /\ q.kind = "switch" /\ q.status = "ok" /\ w # current
      /\ Enter(w)
      /\ page' = RequestPage(r)
      /\ inflight' = Others(q) \cup {Call("reload", w, None), Call("focus", w, r)}
                       \cup IF page.open /\ page.tab = "history" /\ ~historyFailed
                            THEN {Call("history", w, None)} ELSE {}
      /\ UNCHANGED <<server, moves>>
------------------------------------------------------------------------------
(* The person.                                                              *)

Move ==
  /\ moves < MaxMoves /\ moves' = moves + 1
  /\ Cardinality(inflight) < MaxInflight
  /\ UNCHANGED server

\* The page and its dialog are gone, their requests are not.
LeftBehind(requests) ==
  {[q EXCEPT !.mine = @ /\ q.kind \notin {"vote", "focus"}] : q \in requests}

\* Through the picker, whose answer goes home.
Switch(w) ==
  /\ Move
  /\ w # current
  /\ Enter(w)
  /\ page' = PageClosed
  /\ inflight' = LeftBehind(inflight) \cup {Call("reload", w, None)}

Show(p, requests) ==
  /\ page' = p
  /\ inflight' = requests
  /\ UNCHANGED <<current, lists, ghosts>>

Asks(kind, r) == inflight \cup {Call(kind, current, r)}

OpenPage  == Move /\ ~page.open /\ Show([PageClosed EXCEPT !.open = TRUE], inflight)
LeavePage == Move /\ page.open /\ Show(PageClosed, LeftBehind(inflight))

\* The history loads when its tab is first shown.
ShowTab(tab) ==
  /\ Move
  /\ page.open /\ page.selected = None /\ page.tab # tab
  /\ Show([page EXCEPT !.tab = tab],
          IF tab = "history" /\ ~historyLoaded /\ ~historyFailed THEN Asks("history", None)
          ELSE inflight)

\* The rows that the tab shows.
Rows == IF page.tab = "pending" THEN (IF failed THEN NoCopies ELSE shownPending)
        ELSE IF historyLoaded /\ ~historyFailed THEN history ELSE NoCopies

Select(r) ==
  /\ Move
  /\ page.open /\ page.selected = None /\ Rows[r] # 0
  /\ Show([page EXCEPT !.selected = r, !.copy = Rows[r]], inflight)

Close ==
  /\ Move
  /\ page.selected # None
  /\ Show([page EXCEPT !.selected = None, !.copy = 0, !.busy = None], inflight)

\* canVote or canCancel of the dialog.
Vote ==
  /\ Move
  /\ page.selected # None /\ IsPending(page.copy) /\ page.busy = None
  /\ Show([page EXCEPT !.busy = page.selected], Asks("vote", page.selected))

SendPayment(r) ==
  /\ Move
  /\ ~page.open /\ r \in Of(current) /\ version[r] = 0
  /\ Show(page, Asks("send", r))

SavePolicy ==
  /\ Move
  /\ ~page.open /\ loaded /\ policyOf # None
  /\ Show(page, Asks("save", None))

\* onMembersChange, and Try again of the policy on the settings page.
ReloadPolicy == Move /\ ~page.open /\ Show(page, Asks("policy", None))

Retry ==
  /\ Move
  /\ page.open /\ page.tab = "pending" /\ failed
  /\ failed' = FALSE
  /\ inflight' = Asks("reload", None)
  /\ UNCHANGED <<current, policyOf, pending, history, updates, loadedFor, historyFor, historyNext,
                 historyFailed, loadingMore, page, ghosts>>

RetryHistory ==
  /\ Move
  /\ page.open /\ page.tab = "history" /\ historyFailed
  /\ historyFailed' = FALSE
  /\ inflight' = Asks("history", None)
  /\ UNCHANGED <<current, policyOf, pending, history, updates, loadedFor, historyFor, historyNext,
                 failed, loadingMore, page, ghosts>>

LoadMore ==
  /\ Move
  /\ page.open /\ page.tab = "history" /\ hasMoreHistory /\ ~historyFailed /\ ~loadingMore
  /\ loadingMore' = TRUE
  /\ inflight' = Asks("more", None)
  /\ UNCHANGED <<current, policyOf, pending, history, updates, loadedFor, historyFor, historyNext,
                 failed, historyFailed, page, ghosts>>

Person ==
  \/ \E w \in Workspace : Switch(w)
  \/ OpenPage \/ LeavePage \/ Close \/ Vote \/ SavePolicy \/ ReloadPolicy \/ Retry \/ RetryHistory
  \/ LoadMore
  \/ \E tab \in {"pending", "history"} : ShowTab(tab)
  \/ \E r \in Request : Select(r) \/ SendPayment(r)

Next ==
  \/ Person
  \/ \E r \in Request : OthersAct(r) \/ Expires(r)
  \/ \E e \in stream : Event(e)
  \/ \E q \in inflight : Handle(q) \/ Deliver(q) \/ Follow(q)

Spec == Init /\ [][Next]_vars
------------------------------------------------------------------------------
Held == {r \in Request : pending[r] # 0 \/ history[r] # 0 \/ updates[r] # 0}

\* Whatever answers and events come late, after any number of switches, the lists and the
\* policy are those of the workspace that is shown; but for what the answers to the
\* person's own votes, payments and saved policies, and to the approval link the tab was
\* opened with, brought after a switch (see below).
LoadsStayInTheirWorkspace ==
  /\ Held \subseteq Of(current) \cup late
  /\ policyOf \in {None, current} \cup late

\* The comment above currentWorkspace, of every response.  The code violates it: applyUpdate
\* and setPolicy take the answers to a vote, a payment, an approval link or a saved policy
\* of a workspace that was left.
ShownOfTheWorkspace ==
  /\ loaded => {r \in Request : pending[r] # 0} \subseteq Of(current)
  /\ loaded => policyOf \in {None, current}

\* With nothing on its way, a list differs from the server only in requests that expired,
\* whose events were lost or came out of order, or for which an older answer came last.
Settled == inflight = {} /\ stream = {}
QuietListsAreCurrent ==
  Settled =>
    \A r \in Of(current) \ behind :
      /\ loaded => pending[r] = IF IsPending(version[r]) THEN version[r] ELSE 0
      /\ historyLoaded =>
           /\ history[r] \in {0, Closed} /\ (history[r] = Closed => version[r] = Closed)
           /\ version[r] = Closed /\ (r \in Recent \/ ~historyNext) => history[r] = Closed

\* No spinner without a request behind it: a tab that says it loads is answered or shows an
\* error, whatever was switched, failed or retried meanwhile.
SpinnerIsUnderWay ==
  /\ ~loaded /\ ~failed => (\E q \in inflight : q.kind = "reload" /\ IsCurrent(q))
  /\ page.open /\ page.tab = "history" /\ ~historyLoaded /\ ~historyFailed
       => (\E q \in inflight : q.kind = "history" /\ IsCurrent(q))
  /\ loadingMore => (\E q \in inflight : q.kind = "more")
==============================================================================
