------------------------------- MODULE Session -------------------------------
(***************************************************************************)
(* One tab of the web interface from page load to sign-out (App.tsx,       *)
(* useAuth, AppShell, useWorkspaces, useRoute, Login and the workspace     *)
(* picker): the session it shows, the workspace it is in, and the invite   *)
(* and approval links it was opened with.                                  *)
(*                                                                         *)
(* Requests are answered in any order, late or never while the tab is      *)
(* open; they may fail before or after the server acted.  A request of a   *)
(* component that was unmounted still runs its handler, but its setters    *)
(* do nothing: such requests are not mine.  Two equal requests in flight   *)
(* count once, and the two requests of one reload are answered together,   *)
(* although either may fail alone.                                         *)
(* The session is not used from a second tab.                              *)
(***************************************************************************)
EXTENDS FiniteSets, Integers

CONSTANTS User, Workspace,
          Personal,       \* the personal workspace of each user
          Verified,       \* users whose e-mail Google or GitHub has confirmed
          Joined,         \* the memberships at the start, pairs <<user, workspace>>
          Invite,         \* invites: an id, and a token in its link
          InviteUser, InviteWorkspace,
          Request,        \* payment requests that approval links name
          RequestWorkspace,
          None,
          MaxInflight,    \* bound on the requests of the person in flight on one screen
          MaxRemovals,    \* bound on the memberships that owners have ended
          MaxVisits,      \* bound on the page loads and sign-ins
          MaxClicks       \* bound on the other choices of the person

ASSUME SessionAssumption ==
  /\ Personal \in [User -> Workspace]
  /\ Verified \subseteq User
  /\ Joined \subseteq User \X Workspace
  /\ InviteUser \in [Invite -> User]
  /\ InviteWorkspace \in [Invite -> Workspace]
  /\ RequestWorkspace \in [Request -> Workspace]
  /\ None \notin User \cup Workspace \cup Invite \cup Request
  /\ {MaxInflight, MaxRemovals, MaxVisits, MaxClicks} \subseteq Nat

VARIABLES
  account,         \* useAuth: the signed-in user, or None
  auth,            \* useAuth: "checking" (loading), "failed" (error), "signing out" or "known"
  hash,            \* the address bar, with which the route of a mounted shell agrees
  storedApproval,  \* sessionStorage: the approval link that waits for sign-in
  inviteToken,     \* sessionStorage and App: the invite link that was opened
  shell,           \* the state of AppShell and useWorkspaces, reset when it mounts
  login,           \* the state of the sign-in page, reset when it mounts
  session,         \* server: the session of the tab's cookie, or NoSession
  members,         \* server: memberships
  held,            \* the memberships that anyone has, or had before an owner ended them
  invites,         \* server: the status of each invite
  inflight,        \* requests on their way
  asked,           \* since the last sign-in: where the page was loaded, a link opened
                   \* while signed out, and the link that still waits
  visits, clicks

tab    == <<account, auth, hash, storedApproval, inviteToken, shell, login>>
teams  == <<members, held>>
server == <<session, teams, invites>>
bounds == <<visits, clicks>>
vars   == <<tab, server, inflight, asked, bounds>>

Home  == "#/wallets"
Other == "#/settings"           \* any page or wallet but the first
Address == {Home, Other} \cup Request

\* An approval link names its request: it is the address of no other page.
ASSUME AddressAssumption == {Home, Other} \cap Request = {}

NoSession == [user |-> None, workspace |-> None]
NoAnswer  == [list |-> {}, active |-> None, selected |-> FALSE, invitations |-> {}]
ShellInit == [loaded |-> FALSE, error |-> FALSE, list |-> {}, active |-> None,
              selected |-> FALSE, invitations |-> {}, choosing |-> FALSE,
              preview |-> None, busy |-> {}]
LoginInit == [invite |-> None, busy |-> FALSE]

Kind == {"me", "login", "logout", "everywhere", "workspaces", "invitations", "switch", "request",
         "preview", "join", "accept", "decline", "create"}
Answers == [list : SUBSET Workspace, active : Workspace \cup {None}, selected : BOOLEAN,
            invitations : SUBSET Invite]
\* What the picker disables while a request is on its way.
Button == {"pick", "create", "list", "join"}
Arg == User \cup Workspace \cup Invite \cup Request \cup {None}

\* for: the approval link a switch is made for; home: what awaits the answer goes home
\* afterwards; seen: what the closure of the handler holds; button: what the answer
\* enables again; valid: its session is alive.
Inflight == [kind : Kind, arg : Arg, for : Request \cup {None}, home : BOOLEAN,
             seen : Workspace \cup Invite \cup {None}, button : Button \cup {"none"},
             mine : BOOLEAN, valid : BOOLEAN,
             status : {"sent", "ok", "unauthorized", "failed"}, got : Answers]

Asks(kind, arg) ==
  [kind |-> kind, arg |-> arg, for |-> None, home |-> FALSE, seen |-> None,
   button |-> "none", mine |-> TRUE, valid |-> TRUE, status |-> "sent", got |-> NoAnswer]

ShellStates ==
  [loaded : BOOLEAN, error : BOOLEAN, list : SUBSET Workspace,
   active : Workspace \cup {None}, selected : BOOLEAN, invitations : SUBSET Invite,
   choosing : BOOLEAN, preview : Invite \cup {None}, busy : SUBSET Button]
LoginStates == [invite : Invite \cup {None}, busy : BOOLEAN]

TypeOK ==
  /\ account \in User \cup {None}
  /\ auth \in {"checking", "failed", "signing out", "known"}
  /\ hash \in Address
  /\ storedApproval \in Request \cup {None}
  /\ inviteToken \in Invite \cup {None}
  /\ shell \in ShellStates
  /\ login \in LoginStates
  /\ session \in [user : User \cup {None}, workspace : Workspace \cup {None}]
  /\ members \subseteq held /\ held \subseteq User \X Workspace
  /\ invites \in [Invite -> {"pending", "accepted", "revoked"}]
  /\ inflight \subseteq Inflight
  /\ asked \subseteq Address
  /\ visits \in 0 .. MaxVisits
  /\ clicks \in 0 .. MaxClicks

Init ==
  /\ account = None /\ auth = "checking" /\ hash = Home
  /\ storedApproval = None /\ inviteToken = None
  /\ shell = ShellInit /\ login = LoginInit
  /\ session = NoSession /\ members = Joined /\ held = Joined
  /\ invites = [i \in Invite |-> "pending"]
  /\ inflight = {Asks("me", None)}
  /\ asked = {} /\ visits = 0 /\ clicks = 0
------------------------------------------------------------------------------
(* What the screens show.                                                   *)

\* useWorkspaces: a freshly signed-in user with a choice, or with invitations, picks.
NeedsPick(s) ==
  s.loaded /\ ~s.selected /\ (Cardinality(s.list) >= 2 \/ s.invitations # {})
needsPick == NeedsPick(shell)

linkPreview == IF shell.preview = inviteToken THEN inviteToken ELSE None
linkInviteListed == linkPreview # None /\ linkPreview \in shell.invitations

App == IF auth = "checking" THEN "checking"
       ELSE IF auth = "failed" THEN "failed"
       ELSE IF account # None THEN "shell" ELSE "login"

Shell(s, token) ==
  IF ~s.loaded THEN (IF s.error THEN "error" ELSE "loading")
  ELSE IF NeedsPick(s) \/ s.choosing \/ token # None THEN "picker" ELSE "pages"

Shows(screen) == App = "shell" /\ Shell(shell, inviteToken) = screen

\* The picker that is no longer shown forgets what it was busy with, not its requests.
Rendered(s, token) == IF Shell(s, token) = "picker" THEN s ELSE [s EXCEPT !.busy = {}]

CountClick == clicks < MaxClicks /\ clicks' = clicks + 1 /\ UNCHANGED visits
CountVisit == visits < MaxVisits /\ visits' = visits + 1 /\ UNCHANGED clicks
------------------------------------------------------------------------------
(* Mounting, unmounting and the ends of a session.                          *)

\* Mutation: the shell stays mounted between two sessions.
UnmountedLate(requests) == requests

\* Setters of unmounted components do nothing; a preview is dropped by its cleanup.
Unmounted(requests) == {[q EXCEPT !.mine = FALSE] : q \in requests}
Unauthorized(requests) ==
  {IF q.status = "sent" THEN [q EXCEPT !.valid = FALSE] ELSE q : q \in requests}

PreviewOf(token) == IF token = None THEN {} ELSE {Asks("preview", token)}

\* AppShell mounts: useWorkspaces reloads, and the link's preview is fetched.
MountShell(requests) ==
  /\ shell' = ShellInit
  /\ login' = LoginInit
  /\ inflight' = Unmounted(requests) \cup {Asks("workspaces", None)} \cup PreviewOf(inviteToken)

MountLogin(requests) ==
  /\ shell' = ShellInit
  /\ login' = LoginInit
  /\ inflight' = Unmounted(requests) \cup PreviewOf(inviteToken)

\* Mutation: the address of the page stays behind.
endSessionKeepsRoute(requests) ==
  /\ hash' = hash
  /\ account' = None
  /\ IF App = "shell" THEN MountLogin(requests)
     ELSE inflight' = requests /\ UNCHANGED <<shell, login>>

\* reset() writes the URL at once, then expire() signs out, whoever is signed in by now.
endSession(requests) ==
  /\ hash' = Home
  /\ account' = None
  /\ IF App = "shell" THEN MountLogin(requests)
     ELSE inflight' = requests /\ UNCHANGED <<shell, login>>

\* capturePendingApproval: the page loads with, or a signed-out tab goes to, an address.
Captured(address) == IF address \in Request THEN address ELSE storedApproval

\* A page load, by the person or on the way back from Google or GitHub: what was in flight
\* is dropped, sessionStorage is kept.
Load(address) ==
  /\ CountVisit
  /\ hash' = address
  /\ asked' = (asked \cap {storedApproval}) \cup {address}
  /\ storedApproval' = Captured(address)
  /\ account' = None /\ auth' = "checking"
  /\ shell' = ShellInit /\ login' = LoginInit
  /\ inflight' = {Asks("me", None)}
  /\ UNCHANGED <<inviteToken, teams, invites>>

Reload == Load(hash) /\ UNCHANGED session

\* The OAuth round trip drops the hash.
OAuthSignIn(u) ==
  /\ App = "login" /\ ~login.busy
  /\ session' = [user |-> u, workspace |-> None]
  /\ Load(Home)

\* The session is revoked from another device, or expires.
Revoke ==
  /\ session # NoSession
  /\ session' = NoSession
  /\ inflight' = Unauthorized(inflight)
  /\ UNCHANGED <<tab, teams, invites, asked, bounds>>

\* An owner of w, who is at another device, removes u from it: the tab is not told.
RemoveMember(u, w) ==
  /\ <<u, w>> \in members /\ w # Personal[u]
  /\ Cardinality(held \ members) < MaxRemovals
  /\ members' = members \ {<<u, w>>}
  /\ UNCHANGED <<tab, session, held, invites, inflight, asked, bounds>>
------------------------------------------------------------------------------
(* The person opens links and pages.                                        *)

\* onHashChange: only a signed-out tab stores the link; a shell just shows the page.
OpenApprovalLink(r) ==
  /\ hash # r
  /\ hash' = r
  /\ IF account = None THEN storedApproval' = r /\ asked' = {r}
     ELSE UNCHANGED <<storedApproval, asked>>
  /\ CountClick
  /\ UNCHANGED <<account, auth, inviteToken, shell, login, server, inflight>>

\* The effect of the shell drops the preview of an earlier link.
ReplacesPreview(token) ==
  {[q EXCEPT !.mine = @ /\ q.kind # "preview"] : q \in inflight} \cup PreviewOf(token)

\* capturePendingInvite takes the token out of the address.  The sign-in page fetches the
\* preview as well, without a cleanup.
OpenInviteLink(i) ==
  /\ inviteToken # i
  /\ inviteToken' = i
  /\ hash' = Home
  /\ inflight' = CASE App = "shell" -> ReplacesPreview(i)
                   [] App = "login" -> inflight \cup PreviewOf(i)
                   [] OTHER -> inflight
  /\ CountClick
  /\ UNCHANGED <<account, auth, storedApproval, shell, login, server, asked>>

GoTo(address) ==
  /\ Shows("pages")
  /\ hash # address
  /\ hash' = address
  /\ CountClick
  /\ UNCHANGED <<account, auth, storedApproval, inviteToken, shell, login, server, inflight,
                 asked>>

\* A choice in the switcher or the picker that sends nothing.
Choose(new, token) ==
  /\ shell' = Rendered(new, token)
  /\ inviteToken' = token
  /\ CountClick
  /\ UNCHANGED <<account, auth, hash, storedApproval, login, server, inflight, asked>>

ChooseWorkspace == Shows("pages") /\ Choose([shell EXCEPT !.choosing = TRUE], inviteToken)

Back ==
  /\ Shows("picker") /\ ~needsPick /\ inviteToken = None
  /\ Choose([shell EXCEPT !.choosing = FALSE], inviteToken)

\* The other tab of the picker, or a dialog that is closed, unmounts what was busy.
CloseBusy(button) ==
  /\ button \in shell.busy \ {"pick"}
  /\ Choose([shell EXCEPT !.busy = @ \ {button}], inviteToken)

dismissInvite ==
  /\ Shows("picker") /\ linkPreview # None /\ ~linkInviteListed
  /\ Choose(shell, None)

\* The effect of an approval link, once the workspaces are loaded.
takePendingApproval ==
  /\ App = "shell" /\ shell.loaded
  /\ storedApproval # None
  /\ storedApproval' = None
  /\ asked' = {}
  /\ inflight' = inflight \cup
       {[Asks("request", storedApproval) EXCEPT
           !.seen = IF needsPick THEN None ELSE shell.active]}
  /\ UNCHANGED <<account, auth, hash, inviteToken, shell, login, server, bounds>>
------------------------------------------------------------------------------
(* Requests the person sends.                                               *)

\* The person asks for no more while MaxInflight requests are on their way; those of
\* effects, of earlier screens and of sign-outs do not count.
ByPerson == {q \in inflight : q.mine /\ (q.button # "none" \/ q.kind \in {"login", "create", "everywhere"})}
Send(q) ==
  /\ Cardinality(ByPerson) < MaxInflight
  /\ inflight' = inflight \cup {q}
  /\ UNCHANGED <<account, auth, hash, storedApproval, inviteToken, server, asked>>

handleSubmit(u) ==
  /\ App = "login" /\ ~login.busy
  /\ CountVisit
  /\ login' = [login EXCEPT !.busy = TRUE]
  /\ Send(Asks("login", u))
  /\ UNCHANGED shell

TryAgain ==
  /\ App = "failed"
  /\ auth' = "checking"
  /\ inflight' = inflight \cup {Asks("me", None)}
  /\ UNCHANGED <<account, hash, storedApproval, inviteToken, shell, login, server, asked, bounds>>

\* InviteAccept tells an account that the link, which was pending when it was previewed, is
\* for another one, and offers to sign out.
WrongAccount ==
  /\ Shows("picker")
  /\ linkPreview # None /\ ~linkInviteListed /\ InviteUser[linkPreview] # account

\* useAuth's signingOut disables the button of the picker and of the sidebar.
handleSignOut ==
  /\ Shows("picker") \/ Shows("pages")
  /\ IF auth = "signing out" THEN WrongAccount /\ CountClick ELSE UNCHANGED bounds
  /\ auth' = "signing out"
  /\ inflight' = inflight \cup {Asks("logout", None)}
  /\ UNCHANGED <<account, hash, storedApproval, inviteToken, shell, login, server, asked>>

\* On the settings page.
signOutEverywhere ==
  /\ Shows("pages") /\ hash = Other
  /\ Send(Asks("everywhere", None))
  /\ UNCHANGED <<shell, login, bounds>>

ReloadWorkspaces ==
  /\ Shows("error")
  /\ shell' = [shell EXCEPT !.error = FALSE]
  /\ Send(Asks("workspaces", None))
  /\ UNCHANGED <<login, bounds>>

\* A button of the picker is disabled while its request is on its way.
Pick(kind, what, button, seen) ==
  /\ Shows("picker") /\ button \notin shell.busy
  /\ shell' = [shell EXCEPT !.busy = @ \cup {button}]
  /\ Send([Asks(kind, what) EXCEPT !.seen = seen, !.button = button])
  /\ CountClick
  /\ UNCHANGED login

switchWorkspace(w) == w \in shell.list /\ Pick("switch", w, "pick", None)

\* In the dialog of the picker, or on the settings page of a personal workspace, which may be
\* left and opened anew while its request is on its way.  The server makes up the id.
createWorkspace(w) ==
  /\ \A u \in User : <<u, w>> \notin held /\ Personal[u] # w
  /\ \A i \in Invite : InviteWorkspace[i] # w
  /\ \A q \in inflight : q.arg # w
  /\ \/ Pick("create", w, "create", None)
     \/ /\ Shows("pages") /\ hash = Other /\ shell.active = Personal[account]
        /\ Send(Asks("create", w))
        /\ CountClick
        /\ UNCHANGED <<shell, login>>

acceptInvitation(i)  == i \in shell.invitations /\ Pick("accept", i, "list", linkPreview)
declineInvitation(i) == i \in shell.invitations /\ Pick("decline", i, "list", linkPreview)

\* InviteAccept offers to join only to the invited account.
acceptInvite ==
  /\ linkPreview # None /\ ~linkInviteListed
  /\ InviteUser[inviteToken] = account
  /\ Pick("join", inviteToken, "join", None)
------------------------------------------------------------------------------
(* The server.  The answer to a request that changed something may be lost. *)

\* q has been handled: what it will bring back.
Answered(q, status, got) == (inflight \ {q}) \cup {[q EXCEPT !.status = status, !.got = got]}

Memberships(u) == {w \in Workspace : <<u, w>> \in members}

\* WorkspaceService.List and Invitations: the session's workspace, or the personal one.
List ==
  LET joined == Memberships(session.user)
      active == IF session.workspace \in joined THEN session.workspace
                ELSE Personal[session.user]
  IN  [list |-> joined, active |-> active, selected |-> session.workspace = active,
       invitations |-> {i \in Invite : /\ invites[i] = "pending"
                                          /\ InviteUser[i] = session.user
                                          /\ session.user \in Verified}]

Public(q) == q.kind \in {"login", "logout"}
Accepted(q) == Public(q) \/ (q.valid /\ session # NoSession)

\* Of the two requests of a reload, the one for the invitations may have been answered.
OnlyInvitations(q) ==
  IF q.kind = "workspaces" /\ Accepted(q)
  THEN {[NoAnswer EXCEPT !.invitations = List.invitations]} ELSE {}

\* A refused or failing request changes nothing.
Refuse(q) ==
  /\ q.status = "sent" /\ q.kind # "preview"
  /\ \/ (~Accepted(q) /\ inflight' = Answered(q, "unauthorized", NoAnswer))
     \/ \E got \in {NoAnswer} \cup OnlyInvitations(q) : inflight' = Answered(q, "failed", got)
  /\ UNCHANGED <<tab, server, asked, bounds>>

\* Requests that read: me, workspaces, invitations, a payment request.  A reload goes on
\* without the invitations when they fail.
Read(q) ==
  /\ q.status = "sent" /\ Accepted(q)
  /\ q.kind \in {"me", "workspaces", "invitations", "request"}
  /\ q.kind = "request" => <<session.user, RequestWorkspace[q.arg]>> \in members
  /\ \/ q.kind \in {"workspaces", "invitations"} /\ inflight' = Answered(q, "ok", List)
     \/ q.kind = "workspaces" /\ inflight' = Answered(q, "ok", [List EXCEPT !.invitations = {}])
     \/ /\ q.kind = "me"
        /\ inflight' = (inflight \ {q}) \cup {[q EXCEPT !.status = "ok", !.arg = session.user]}
     \/ q.kind = "request" /\ inflight' = Answered(q, "ok", NoAnswer)
  /\ UNCHANGED <<tab, server, asked, bounds>>

\* login opens a session, logout ends the one of the cookie, logout-all those of its user.
ChangeSession(q) ==
  /\ q.status = "sent"
  /\ \/ q.kind = "login" /\ session' = [user |-> q.arg, workspace |-> None]
     \/ q.kind = "logout" /\ session' = NoSession
     \/ q.kind = "everywhere" /\ Accepted(q) /\ session' = NoSession
  /\ \E status \in {"ok", "failed"} : inflight' = Unauthorized(Answered(q, status, NoAnswer))
  /\ UNCHANGED <<tab, teams, invites, asked, bounds>>

\* The user of the session joins w, and is in it.
Enters(w) ==
  /\ members' = members \cup {<<session.user, w>>}
  /\ held' = held \cup {<<session.user, w>>}
  /\ session' = [session EXCEPT !.workspace = w]

\* switch, create, and the two ways to accept an invite, which switch as well.
Join(q) ==
  /\ q.status = "sent" /\ Accepted(q)
  /\ \/ /\ q.kind = "switch"
        /\ <<session.user, q.arg>> \in members
        /\ session' = [session EXCEPT !.workspace = q.arg]
        /\ UNCHANGED <<teams, invites>>
     \/ q.kind = "create" /\ Enters(q.arg) /\ UNCHANGED invites
     \/ /\ q.kind \in {"join", "accept"}
        /\ q.kind = "accept" => session.user \in Verified
        /\ invites[q.arg] = "pending" /\ InviteUser[q.arg] = session.user
        /\ invites' = [invites EXCEPT ![q.arg] = "accepted"]
        /\ Enters(InviteWorkspace[q.arg])
  /\ \E status \in {"ok", "failed"} : inflight' = Answered(q, status, NoAnswer)
  /\ UNCHANGED <<tab, asked, bounds>>

Decline(q) ==
  /\ q.status = "sent" /\ Accepted(q) /\ q.kind = "decline"
  /\ invites[q.arg] = "pending" /\ InviteUser[q.arg] = session.user
  /\ session.user \in Verified
  /\ invites' = [invites EXCEPT ![q.arg] = "revoked"]
  /\ \E status \in {"ok", "failed"} : inflight' = Answered(q, status, NoAnswer)
  /\ UNCHANGED <<tab, session, teams, asked, bounds>>

Handle(q) == Refuse(q) \/ Read(q) \/ ChangeSession(q) \/ Join(q) \/ Decline(q)
------------------------------------------------------------------------------
(* Answers reach the tab.                                                   *)

Others(q) == inflight \ {q}

\* The setters of q's handler, and the button it enables again.
Update(q, new, token) ==
  shell' = IF q.mine THEN Rendered([new EXCEPT !.busy = @ \ {q.button}], token) ELSE shell

\* The handler awaits another request before it goes on.
Awaits(q, next) == inflight' = Others(q) \cup {[next EXCEPT !.mine = q.mine]}

restored(q) ==
  /\ q.kind = "me"
  /\ CASE q.status = "ok" -> account' = q.arg /\ auth' = "known" /\ MountShell(Others(q))
       [] q.status = "unauthorized" -> account' = None /\ auth' = "known" /\ MountLogin(Others(q))
       [] OTHER -> /\ auth' = "failed" /\ inflight' = Others(q)
                   /\ UNCHANGED <<account, shell, login>>
  /\ UNCHANGED <<hash, storedApproval, inviteToken>>

signIn(q) ==
  /\ q.kind = "login"
  /\ IF q.status = "ok" THEN account' = q.arg /\ MountShell(Others(q))
     ELSE /\ login' = [login EXCEPT !.busy = FALSE]
          /\ inflight' = Others(q)
          /\ UNCHANGED <<account, shell>>
  /\ UNCHANGED <<auth, hash, storedApproval, inviteToken>>

signOut(q) ==
  /\ q.kind \in {"logout", "everywhere"}
  /\ IF q.status = "ok" THEN endSession(Others(q))
     ELSE inflight' = Others(q) /\ UNCHANGED <<hash, account, shell, login>>
  /\ auth' = IF q.kind = "logout" THEN "known" ELSE auth
  /\ UNCHANGED <<storedApproval, inviteToken>>

\* A preview is public and does not change: it is answered in one step, with the invite
\* or with an error, which the shell keeps for its token as well.
previewed(q) ==
  /\ q.kind = "preview"
  /\ inflight' = Others(q)
  /\ shell' = IF q.mine /\ App = "shell" THEN [shell EXCEPT !.preview = q.arg] ELSE shell
  /\ login' \in IF q.mine /\ App = "login" THEN {login, [login EXCEPT !.invite = q.arg]}
                ELSE {login}
  /\ UNCHANGED <<account, auth, hash, storedApproval, inviteToken>>

\* Mutation: an error is not shown.
loadFailedSilently(s) == s

\* Only shown until the workspaces are loaded for the first time.
loadFailed(s) == [s EXCEPT !.error = ~s.loaded]

loadedWith(s, got) ==
  [s EXCEPT !.loaded = TRUE, !.error = FALSE, !.list = got.list, !.active = got.active,
            !.selected = got.selected, !.invitations = got.invitations]

\* What was awaiting the reload goes on after an error as well.
reload(q) ==
  /\ q.kind = "workspaces"
  /\ inviteToken' = IF q.seen # None THEN None ELSE inviteToken
  /\ IF q.status = "unauthorized" THEN
       endSession(Others(q))
     ELSE
       /\ hash' = IF q.home THEN Home ELSE hash
       /\ inflight' = Others(q)
       /\ LET answered == IF q.status = "ok" THEN loadedWith(shell, q.got)
                         ELSE [loadFailed(shell) EXCEPT !.invitations = q.got.invitations]
          IN  Update(q, [answered EXCEPT !.choosing = @ /\ ~q.home], inviteToken')
       /\ UNCHANGED <<account, login>>
  /\ UNCHANGED <<auth, storedApproval>>

reloadInvitations(q) ==
  /\ q.kind = "invitations"
  /\ inviteToken' = IF q.seen # None THEN None ELSE inviteToken
  /\ inflight' = Others(q)
  /\ Update(q, [shell EXCEPT !.invitations = q.got.invitations], inviteToken')
  /\ UNCHANGED <<account, auth, hash, storedApproval, login>>

\* Mutation: the workspace's id is taken for the request's.
OpenedAfter(q) == IF q.for = None THEN Home ELSE q.arg

Opened(q) == IF q.for = None THEN Home ELSE q.for

\* Of the picker, or of an approval link, which opens its request afterwards.
switchTo(q) ==
  /\ q.kind = "switch"
  /\ inflight' = Others(q)
  /\ IF q.status = "ok"
     THEN /\ hash' = IF q.for = None \/ q.mine THEN Opened(q) ELSE hash
          /\ Update(q, [shell EXCEPT !.active = q.arg, !.selected = TRUE,
                                     !.choosing = @ /\ q.for # None], inviteToken)
     ELSE hash' = hash /\ Update(q, shell, inviteToken)
  /\ UNCHANGED <<account, auth, storedApproval, inviteToken, login>>

\* Mutation: the request is opened in whatever workspace is active.
openLinkWithoutSwitch(q) ==
  /\ q.kind = "request"
  /\ hash' = IF q.status = "ok" /\ q.mine THEN q.arg ELSE hash
  /\ inflight' = Others(q)
  /\ UNCHANGED <<account, auth, storedApproval, inviteToken, shell, login>>

openLink(q) ==
  /\ q.kind = "request"
  /\ IF q.status = "ok" /\ q.seen # RequestWorkspace[q.arg]
     THEN /\ hash' = hash
          /\ Awaits(q, [Asks("switch", RequestWorkspace[q.arg]) EXCEPT !.for = q.arg])
     ELSE /\ hash' = IF q.status = "ok" /\ q.mine THEN q.arg ELSE hash
          /\ inflight' = Others(q)
  /\ UNCHANGED <<account, auth, storedApproval, inviteToken, shell, login>>

created(q) ==
  /\ q.kind = "create"
  /\ IF q.status = "ok"
     THEN /\ Awaits(q, [Asks("workspaces", None) EXCEPT !.home = TRUE, !.button = q.button])
          /\ UNCHANGED shell
     ELSE inflight' = Others(q) /\ Update(q, shell, inviteToken)
  /\ UNCHANGED <<account, auth, hash, storedApproval, inviteToken, login>>

\* A link's invite is done with once its row in the list was answered.
acceptedInvitation(q) ==
  /\ q.kind = "accept"
  /\ Awaits(q, [Asks("workspaces", None) EXCEPT !.button = "list", !.home = q.status = "ok",
                  !.seen = IF q.status = "ok" /\ q.seen = q.arg THEN q.arg ELSE None])
  /\ UNCHANGED tab

declinedInvitation(q) ==
  /\ q.kind = "decline"
  /\ Awaits(q, IF q.status = "ok"
               THEN [Asks("invitations", None) EXCEPT !.button = "list",
                       !.seen = IF q.seen = q.arg THEN q.arg ELSE None]
               ELSE [Asks("workspaces", None) EXCEPT !.button = "list"])
  /\ UNCHANGED tab

handleJoined(q) ==
  /\ q.kind = "join"
  /\ IF q.status = "ok"
     THEN /\ inviteToken' = None
          /\ Update(q, [shell EXCEPT !.choosing = FALSE], None)
          /\ Awaits(q, [Asks("workspaces", None) EXCEPT !.home = TRUE])
     ELSE /\ inflight' = Others(q)
          /\ Update(q, shell, inviteToken)
          /\ UNCHANGED inviteToken
  /\ UNCHANGED <<account, auth, hash, storedApproval, login>>

Deliver(q) ==
  /\ q.status # "sent" \/ q.kind = "preview"
  /\ \/ restored(q) \/ signIn(q) \/ signOut(q) \/ previewed(q) \/ reload(q)
     \/ reloadInvitations(q) \/ switchTo(q) \/ openLink(q) \/ created(q)
     \/ acceptedInvitation(q) \/ declinedInvitation(q) \/ handleJoined(q)
  /\ asked' = IF account = None /\ account' # None THEN asked \cap {storedApproval} ELSE asked
  /\ UNCHANGED <<server, bounds>>
------------------------------------------------------------------------------
Person ==
  \/ Reload
  \/ \E u \in User : OAuthSignIn(u) \/ handleSubmit(u)
  \/ \E r \in Request : OpenApprovalLink(r)
  \/ \E i \in Invite : OpenInviteLink(i) \/ acceptInvitation(i) \/ declineInvitation(i)
  \/ \E address \in {Home, Other} : GoTo(address)
  \/ \E w \in Workspace : switchWorkspace(w) \/ createWorkspace(w)
  \/ \E button \in Button : CloseBusy(button)
  \/ ChooseWorkspace \/ Back \/ dismissInvite \/ acceptInvite
  \/ TryAgain \/ ReloadWorkspaces \/ handleSignOut \/ signOutEverywhere

Next ==
  \/ Person
  \/ takePendingApproval
  \/ Revoke
  \/ \E u \in User, w \in Workspace : RemoveMember(u, w)
  \/ \E q \in inflight : Handle(q) \/ Deliver(q)

Spec == Init /\ [][Next]_vars
------------------------------------------------------------------------------
\* The workspaces on the screen are ones that the user it names belongs or belonged to,
\* never another user's, although requests of an earlier session are still answered after
\* sign-out and sign-in.  Whoever was removed sees the workspace until the list loads again.
ListIsOfTheUser ==
  account # None => \A w \in shell.list : <<account, w>> \in held

\* Whoever signs in starts on the first page, at the address of a page load since the last
\* sign-in, or at a link opened while nobody was signed in; and the link that waits is one of
\* those.  Without a page load, an address that an earlier session showed is forgotten; a
\* page load keeps it, and if the session has ended by then, the next one starts there.
StartsAtHome ==
  [][account = None /\ account' # None
       => hash' \in {Home} \cup asked /\ storedApproval' \in {None} \cup asked]_vars

\* The link effect never leaves the request of one workspace open in another one, unless
\* the person switched while the request was fetched.
LinkOpensInItsWorkspace ==
  [][\A r \in Request :
       (/\ hash # r /\ hash' = r /\ account # None /\ account' # None
        /\ inflight' # inflight)
       => \/ shell'.active = RequestWorkspace[r]
          \/ \E q \in inflight : q.kind = "request" /\ q.arg = r /\ q.seen # shell.active]_vars

\* No spinner without a request behind it: while the tab says that it checks the session or
\* loads the workspaces, an answer or an error is still to come.
Waiting == App = "checking" \/ Shows("loading")
LoadingIsUnderWay ==
  Waiting => \E q \in inflight : q.mine /\ q.kind = IF App = "checking" THEN "me" ELSE "workspaces"
==============================================================================
