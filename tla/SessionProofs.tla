----------------------------- MODULE SessionProofs -----------------------------
(***************************************************************************)
(* For every set of users, workspaces, invites and payment requests and    *)
(* any number of page loads, sign-ins and clicks, the tab of Session keeps *)
(* its types, shows only workspaces that the user it names belongs or      *)
(* belonged to, waits for nothing that is not on its way, starts a session *)
(* on the first page, where the page was loaded or at a link that waits,   *)
(* and opens a linked request in its workspace.                            *)
(***************************************************************************)
EXTENDS Session, TLAPS

\* What the argument of a request names; the switch that an approval link makes is to
\* the workspace of its request.
Names(q) ==
  /\ q.kind = "login" \/ (q.kind = "me" /\ q.status = "ok") => q.arg \in User
  /\ q.kind \in {"switch", "create"} => q.arg \in Workspace
  /\ q.kind \in {"preview", "join", "accept", "decline"} => q.arg \in Invite
  /\ q.kind = "request" => q.arg \in Request
  /\ q.kind = "switch" /\ q.for # None => q.arg = RequestWorkspace[q.for]

Requests == {q \in Inflight : Names(q)}

\* TypeOK made inductive: a session has a user, and a request names what it is about.
TypeInv ==
  /\ TypeOK
  /\ session.user = None => session = NoSession
  /\ inflight \subseteq Requests
------------------------------------------------------------------------------
(* The requests that are on their way.                                      *)

LEMMA AskedRequests ==
  ASSUME NEW kind \in Kind, NEW arg \in Arg
  PROVE  /\ Asks(kind, arg) \in Inflight
         /\ Asks(kind, arg).kind = kind
         /\ Asks(kind, arg).arg = arg
         /\ Asks(kind, arg).for = None
         /\ Asks(kind, arg).status = "sent"
         /\ Asks(kind, arg).mine
BY DEF Asks, Inflight, NoAnswer, Answers

LEMMA PreviewRequests ==
  ASSUME NEW token \in Invite \cup {None}
  PROVE  /\ PreviewOf(token) \subseteq Requests
         /\ \A p \in PreviewOf(token) : p.kind = "preview" /\ p.status = "sent" /\ p.mine
<1>1. CASE token = None
  BY <1>1 DEF PreviewOf
<1>2. CASE token # None
  <2>1. token \in Invite /\ "preview" \in Kind /\ token \in Arg
    BY <1>2 DEF Kind, Arg
  <2>2. /\ Asks("preview", token) \in Inflight
        /\ Asks("preview", token).kind = "preview"
        /\ Asks("preview", token).arg = token
        /\ Asks("preview", token).status = "sent"
        /\ Asks("preview", token).mine
    BY <2>1, AskedRequests
  <2>3. Names(Asks("preview", token))
    BY <2>1, <2>2 DEF Names
  <2> QED
    BY <1>2, <2>2, <2>3 DEF PreviewOf, Requests
<1> QED
  BY <1>1, <1>2

LEMMA UnmountedRequests ==
  ASSUME NEW S \in SUBSET Requests
  PROVE  /\ Unmounted(S) \subseteq Requests
         /\ \A p \in Unmounted(S) : ~p.mine /\ \E q \in S : p.kind = q.kind
<1> SUFFICES ASSUME NEW q \in S
             PROVE  LET p == [q EXCEPT !.mine = FALSE]
                    IN  p \in Requests /\ ~p.mine /\ p.kind = q.kind
  BY DEF Unmounted
<1> DEFINE p == [q EXCEPT !.mine = FALSE]
<1>1. p \in Inflight /\ ~p.mine /\ p.kind = q.kind /\ p.arg = q.arg /\ p.for = q.for /\ p.status = q.status
  BY DEF Requests, Inflight
<1>2. Names(q)
  BY DEF Requests
<1> HIDE DEF p
<1>3. Names(p)
  BY <1>1, <1>2 DEF Names
<1> QED
  BY <1>1, <1>3 DEF p, Requests

LEMMA ExpiredRequests ==
  ASSUME NEW S \in SUBSET Requests
  PROVE  /\ Unauthorized(S) \subseteq Requests
         /\ \A p \in Unauthorized(S) : \E q \in S :
              /\ p = IF q.status = "sent" THEN [q EXCEPT !.valid = FALSE] ELSE q
              /\ p.kind = q.kind /\ p.mine = q.mine /\ p.arg = q.arg
              /\ p.status = q.status /\ p.got = q.got
         /\ \A q \in S : \E p \in Unauthorized(S) : p.kind = q.kind /\ p.mine = q.mine
<1> DEFINE Expired(q) == IF q.status = "sent" THEN [q EXCEPT !.valid = FALSE] ELSE q
<1>1. Unauthorized(S) = {Expired(q) : q \in S}
  BY DEF Unauthorized
<1>2. ASSUME NEW q \in S
      PROVE  LET p == Expired(q)
             IN  /\ p \in Requests
                 /\ p.kind = q.kind /\ p.mine = q.mine /\ p.arg = q.arg
                 /\ p.status = q.status /\ p.got = q.got
  <2> DEFINE p == [q EXCEPT !.valid = FALSE]
  <2>1. /\ p \in Inflight
        /\ p.kind = q.kind /\ p.mine = q.mine /\ p.arg = q.arg /\ p.for = q.for
        /\ p.status = q.status /\ p.got = q.got
    BY DEF Requests, Inflight
  <2>2. q \in Requests /\ Names(q)
    BY DEF Requests
  <2> HIDE DEF p
  <2>3. p \in Requests
    BY <2>1, <2>2 DEF Names, Requests
  <2> QED
    BY <2>1, <2>2, <2>3 DEF p
<1> QED
  BY <1>1, <1>2

\* The answer to q comes back with its status and what it brings.
LEMMA AnsweredRequests ==
  ASSUME inflight \subseteq Requests, NEW q \in inflight,
         NEW status \in {"ok", "unauthorized", "failed"}, NEW got \in Answers,
         q.kind = "me" => status # "ok"
  PROVE  /\ Answered(q, status, got) \subseteq Requests
         /\ \E p : /\ Answered(q, status, got) = (inflight \ {q}) \cup {p}
                   /\ p.kind = q.kind /\ p.mine = q.mine /\ p.arg = q.arg
                   /\ p.status = status /\ p.got = got
<1> DEFINE p == [q EXCEPT !.status = status, !.got = got]
<1>1. /\ p \in Inflight
      /\ p.kind = q.kind /\ p.mine = q.mine /\ p.arg = q.arg /\ p.for = q.for
      /\ p.status = status /\ p.got = got
  BY DEF Requests, Inflight
<1>2. Names(q) /\ Answered(q, status, got) = (inflight \ {q}) \cup {p}
  BY DEF Requests, Answered
<1> HIDE DEF p
<1>3. p \in Requests
  BY <1>1, <1>2 DEF Names, Requests
<1> QED
  BY <1>1, <1>2, <1>3

\* The effect of the shell replaces the preview.
LEMMA ReplacedRequests ==
  ASSUME inflight \subseteq Requests, NEW token \in Invite \cup {None}
  PROVE  /\ ReplacesPreview(token) \subseteq Requests
         /\ \A p \in ReplacesPreview(token) :
              \/ p.kind = "preview" /\ p.status = "sent" /\ p.mine
              \/ \E q \in inflight : /\ p.kind = q.kind /\ p.mine \in {q.mine, FALSE}
                                     /\ p.arg = q.arg /\ p.status = q.status /\ p.got = q.got
         /\ \A q \in inflight : q.kind # "preview" =>
              \E p \in ReplacesPreview(token) : p.kind = q.kind /\ p.mine = q.mine
<1> DEFINE Kept(q) == [q EXCEPT !.mine = @ /\ q.kind # "preview"]
<1>1. ReplacesPreview(token) = {Kept(q) : q \in inflight} \cup PreviewOf(token)
  BY DEF ReplacesPreview
<1>2. ASSUME NEW q \in inflight
      PROVE  LET p == Kept(q)
             IN  /\ p \in Requests
                 /\ p.kind = q.kind /\ p.mine \in {q.mine, FALSE} /\ p.arg = q.arg
                 /\ p.status = q.status /\ p.got = q.got
                 /\ q.kind # "preview" => p.mine = q.mine
  <2> DEFINE p == Kept(q)
  <2>0. q \in Inflight /\ Names(q)
    BY DEF Requests
  <2>1. /\ p \in Inflight
        /\ p.kind = q.kind /\ p.arg = q.arg /\ p.for = q.for
        /\ p.status = q.status /\ p.got = q.got
        /\ p.mine = (q.mine /\ q.kind # "preview")
    BY <2>0 DEF Inflight
  <2> HIDE DEF p
  <2>3. p \in Requests
    BY <2>0, <2>1 DEF Names, Requests
  <2>4. q.mine \in BOOLEAN
    BY <2>0 DEF Inflight
  <2>5. p.mine \in {q.mine, FALSE} /\ (q.kind # "preview" => p.mine = q.mine)
    BY <2>1, <2>4
  <2> QED
    BY <2>1, <2>3, <2>5 DEF p
<1> HIDE DEF Kept
<1>3. /\ PreviewOf(token) \subseteq Requests
      /\ \A p \in PreviewOf(token) : p.kind = "preview" /\ p.status = "sent" /\ p.mine
  BY PreviewRequests
<1>4. ReplacesPreview(token) \subseteq Requests
  BY <1>1, <1>2, <1>3
<1>5. ASSUME NEW p \in ReplacesPreview(token)
      PROVE  \/ p.kind = "preview" /\ p.status = "sent" /\ p.mine
             \/ \E q \in inflight : /\ p.kind = q.kind /\ p.mine \in {q.mine, FALSE}
                                    /\ p.arg = q.arg /\ p.status = q.status /\ p.got = q.got
  <2>1. CASE p \in PreviewOf(token)
    BY <1>3, <2>1
  <2>2. CASE \E q \in inflight : p = Kept(q)
    BY <1>2, <2>2
  <2> QED
    BY <1>1, <2>1, <2>2
<1>6. ASSUME NEW q \in inflight, q.kind # "preview"
      PROVE  \E p \in ReplacesPreview(token) : p.kind = q.kind /\ p.mine = q.mine
  BY <1>1, <1>2, <1>6
<1> QED
  BY <1>4, <1>5, <1>6
------------------------------------------------------------------------------
(* The state of the shell.                                                  *)

LEMMA RenderedShell ==
  ASSUME NEW s \in ShellStates, NEW token
  PROVE  LET r == Rendered(s, token)
         IN  /\ r \in ShellStates
             /\ r.loaded = s.loaded /\ r.error = s.error /\ r.list = s.list
             /\ r.active = s.active
BY DEF Rendered, ShellStates

\* A request of a component that is gone changes nothing; the others set what their
\* handler sets and enable their button again.
LEMMA UpdatedShell ==
  ASSUME NEW q \in Requests, NEW new \in ShellStates, NEW token, shell \in ShellStates,
         Update(q, new, token)
  PROVE  /\ shell' \in ShellStates
         /\ ~q.mine => shell' = shell
         /\ q.mine => /\ shell'.loaded = new.loaded /\ shell'.error = new.error
                      /\ shell'.list = new.list /\ shell'.active = new.active
<1> DEFINE enabled == [new EXCEPT !.busy = @ \ {q.button}]
<1>1. /\ enabled \in ShellStates
      /\ enabled.loaded = new.loaded /\ enabled.error = new.error
      /\ enabled.list = new.list /\ enabled.active = new.active
  BY DEF ShellStates
<1>2. shell' = IF q.mine THEN Rendered(enabled, token) ELSE shell
  BY DEF Update
<1> HIDE DEF enabled
<1> QED
  BY <1>1, <1>2, RenderedShell
------------------------------------------------------------------------------
(* Types.                                                                   *)

\* A session that is alive lists the memberships of its user.
LEMMA ListTypes ==
  ASSUME TypeInv, session # NoSession
  PROVE  /\ session.user \in User
         /\ List \in Answers
         /\ List.list = Memberships(session.user)
<1>1. session.user \in User
  BY DEF TypeInv, TypeOK
<1>2. /\ session.workspace \in Workspace \cup {None}
      /\ Personal[session.user] \in Workspace
      /\ Memberships(session.user) \subseteq Workspace
  BY <1>1, SessionAssumption DEF TypeInv, TypeOK, Memberships
<1> QED
  BY <1>1, <1>2 DEF List, Answers

\* What is on its way once a shell or a sign-in page has mounted over the requests S.
Mounted(S, kinds) ==
  /\ shell' = ShellInit /\ shell' \in ShellStates
  /\ login' = LoginInit /\ login' \in LoginStates
  /\ inflight' \subseteq Requests
  /\ \A p \in inflight' : \/ p.mine /\ p.status = "sent" /\ p.kind \in kinds
                          \/ ~p.mine /\ \E q \in S : p.kind = q.kind

LEMMA MountedShell ==
  ASSUME TypeInv, NEW S \in SUBSET Requests, MountShell(S)
  PROVE  /\ Mounted(S, {"workspaces", "preview"})
         /\ \E p \in inflight' : p.mine /\ p.kind = "workspaces"
<1> DEFINE a == Asks("workspaces", None)
<1>1. shell' = ShellInit /\ login' = LoginInit
      /\ inflight' = Unmounted(S) \cup {a} \cup PreviewOf(inviteToken)
  BY DEF MountShell
<1>2. ShellInit \in ShellStates /\ LoginInit \in LoginStates
  BY DEF ShellInit, ShellStates, LoginInit, LoginStates
<1>3. a \in Inflight /\ a.kind = "workspaces" /\ a.status = "sent" /\ a.mine
  BY AskedRequests DEF Kind, Arg
<1> HIDE DEF a
<1>4. a \in Requests
  BY <1>3 DEF Requests, Names
<1>5. /\ PreviewOf(inviteToken) \subseteq Requests
      /\ \A p \in PreviewOf(inviteToken) : p.kind = "preview" /\ p.status = "sent" /\ p.mine
  BY PreviewRequests DEF TypeInv, TypeOK
<1>6. /\ Unmounted(S) \subseteq Requests
      /\ \A p \in Unmounted(S) : ~p.mine /\ \E q \in S : p.kind = q.kind
  BY UnmountedRequests
<1>7. Mounted(S, {"workspaces", "preview"})
  BY <1>1, <1>2, <1>3, <1>4, <1>5, <1>6 DEF Mounted
<1> QED
  BY <1>1, <1>3, <1>7

LEMMA MountedLogin ==
  ASSUME TypeInv, NEW S \in SUBSET Requests, MountLogin(S)
  PROVE  Mounted(S, {"preview"})
<1>1. shell' = ShellInit /\ login' = LoginInit
      /\ inflight' = Unmounted(S) \cup PreviewOf(inviteToken)
  BY DEF MountLogin
<1>2. ShellInit \in ShellStates /\ LoginInit \in LoginStates
  BY DEF ShellInit, ShellStates, LoginInit, LoginStates
<1>3. /\ PreviewOf(inviteToken) \subseteq Requests
      /\ \A p \in PreviewOf(inviteToken) : p.kind = "preview" /\ p.status = "sent" /\ p.mine
  BY PreviewRequests DEF TypeInv, TypeOK
<1>4. /\ Unmounted(S) \subseteq Requests
      /\ \A p \in Unmounted(S) : ~p.mine /\ \E q \in S : p.kind = q.kind
  BY UnmountedRequests
<1> QED
  BY <1>1, <1>2, <1>3, <1>4 DEF Mounted

\* The types of what a step of the tab sets, when the server and the bounds are as before.
LEMMA TabTypes ==
  ASSUME TypeInv, UNCHANGED <<session, teams, invites>>,
         account' \in User \cup {None},
         auth' \in {"checking", "failed", "signing out", "known"},
         hash' \in Address,
         storedApproval' \in Request \cup {None},
         inviteToken' \in Invite \cup {None},
         shell' \in ShellStates,
         login' \in LoginStates,
         inflight' \subseteq Requests,
         asked' \subseteq Address,
         visits' \in 0 .. MaxVisits,
         clicks' \in 0 .. MaxClicks
  PROVE  TypeInv'
<1>1. inflight' \subseteq Inflight
  BY DEF Requests
<1>2. /\ session' \in [user : User \cup {None}, workspace : Workspace \cup {None}]
      /\ members' \subseteq held' /\ held' \subseteq User \X Workspace
      /\ invites' \in [Invite -> {"pending", "accepted", "revoked"}]
      /\ session'.user = None => session' = NoSession
  BY DEF TypeInv, TypeOK, teams
<1>3. TypeOK'
  BY <1>1, <1>2 DEF TypeOK
<1> QED
  BY <1>2, <1>3 DEF TypeInv

LEMMA CountTypes ==
  ASSUME TypeInv, \/ CountClick \/ CountVisit \/ UNCHANGED bounds
  PROVE  visits' \in 0 .. MaxVisits /\ clicks' \in 0 .. MaxClicks
<1>1. /\ visits \in 0 .. MaxVisits /\ clicks \in 0 .. MaxClicks
      /\ MaxVisits \in Nat /\ MaxClicks \in Nat
  BY SessionAssumption DEF TypeInv, TypeOK
<1> QED
  BY <1>1 DEF CountClick, CountVisit, bounds

LEMMA InitTypes == Init => TypeInv
<1> SUFFICES ASSUME Init
             PROVE  TypeInv
  OBVIOUS
<1>1. /\ Asks("me", None) \in Inflight
      /\ Asks("me", None).kind = "me"
      /\ Asks("me", None).status = "sent"
  BY AskedRequests DEF Kind, Arg
<1>2. Asks("me", None) \in Requests
  BY <1>1 DEF Requests, Names
<1>3. ShellInit \in ShellStates /\ LoginInit \in LoginStates
  BY DEF ShellInit, ShellStates, LoginInit, LoginStates
<1>4. NoSession \in [user : User \cup {None}, workspace : Workspace \cup {None}]
  BY DEF NoSession
<1>5. 0 \in 0 .. MaxVisits /\ 0 \in 0 .. MaxClicks
  BY SessionAssumption
<1>6. TypeOK
  BY <1>1, <1>3, <1>4, <1>5, SessionAssumption DEF Init, TypeOK, Address
<1> QED
  BY <1>2, <1>6 DEF Init, TypeInv

LEMMA LoadTypes ==
  ASSUME TypeInv, NEW address \in Address, Load(address),
         session' \in [user : User \cup {None}, workspace : Workspace \cup {None}],
         session'.user = None => session' = NoSession
  PROVE  TypeInv'
<1>1. /\ Asks("me", None) \in Inflight
      /\ Asks("me", None).kind = "me"
      /\ Asks("me", None).status = "sent"
  BY AskedRequests DEF Kind, Arg
<1>2. Asks("me", None) \in Requests
  BY <1>1 DEF Requests, Names
<1>3. ShellInit \in ShellStates /\ LoginInit \in LoginStates
  BY DEF ShellInit, ShellStates, LoginInit, LoginStates
<1>4. visits' \in 0 .. MaxVisits /\ clicks' \in 0 .. MaxClicks
  BY CountTypes DEF Load
<1>5. storedApproval' \in Request \cup {None}
  BY DEF Load, Captured, TypeInv, TypeOK
<1>6. TypeOK'
  BY <1>1, <1>3, <1>4, <1>5 DEF Load, TypeInv, TypeOK, teams
<1>7. inflight' \subseteq Requests
  BY <1>2 DEF Load
<1> QED
  BY <1>6, <1>7 DEF TypeInv

\* A choice of the picker or the switcher changes only what the shell shows.
LEMMA ChosenShell ==
  ASSUME TypeInv, NEW token, NEW new \in ShellStates, Choose(new, token)
  PROVE  /\ shell' \in ShellStates
         /\ shell'.loaded = new.loaded /\ shell'.error = new.error /\ shell'.list = new.list
BY RenderedShell DEF Choose

\* What a button of the picker sends.
LEMMA PickedRequest ==
  ASSUME TypeInv, NEW kind \in {"switch", "create", "accept", "decline", "join"},
         NEW what \in IF kind \in {"switch", "create"} THEN Workspace ELSE Invite,
         NEW button \in Button, NEW seen \in Invite \cup {None},
         Pick(kind, what, button, seen)
  PROVE  /\ shell' \in ShellStates
         /\ shell'.loaded = shell.loaded /\ shell'.error = shell.error /\ shell'.list = shell.list
         /\ inflight' \subseteq Requests
         /\ \E p : /\ inflight' = inflight \cup {p}
                   /\ p.kind = kind /\ p.status = "sent"
<1> DEFINE p == [Asks(kind, what) EXCEPT !.seen = seen, !.button = button]
           s == [shell EXCEPT !.busy = @ \cup {button}]
<1>1. what \in Arg /\ kind \in Kind
  BY DEF Arg, Kind
<1>2. /\ Asks(kind, what) \in Inflight
      /\ Asks(kind, what).kind = kind
      /\ Asks(kind, what).arg = what
      /\ Asks(kind, what).for = None
      /\ Asks(kind, what).status = "sent"
  BY <1>1, AskedRequests
<1>3. /\ p \in Inflight
      /\ p.kind = kind /\ p.arg = what /\ p.for = None /\ p.status = "sent"
  BY <1>2 DEF Inflight
<1>4. inflight' = inflight \cup {p} /\ shell' = s
  BY DEF Pick, Send
<1>5. s \in ShellStates /\ s.loaded = shell.loaded /\ s.error = shell.error /\ s.list = shell.list
  BY DEF TypeInv, TypeOK, ShellStates
<1> HIDE DEF p, s
<1>6. p \in Requests
  BY <1>3 DEF Requests, Names
<1> QED
  BY <1>3, <1>4, <1>5, <1>6 DEF TypeInv

Picks == \/ \E w \in Workspace : switchWorkspace(w) \/ createWorkspace(w)
         \/ \E i \in Invite : acceptInvitation(i) \/ declineInvitation(i)
         \/ acceptInvite \/ signOutEverywhere

\* The requests of the picker and of the settings page, and what they leave as it is.
LEMMA PicksRequest ==
  ASSUME TypeInv, Picks
  PROVE  /\ shell' \in ShellStates
         /\ shell'.loaded = shell.loaded /\ shell'.error = shell.error /\ shell'.list = shell.list
         /\ inflight' \subseteq Requests
         /\ \E p : /\ inflight' = inflight \cup {p}
                   /\ p.kind \in {"switch", "create", "accept", "decline", "join", "everywhere"}
                   /\ p.status = "sent"
         /\ Shows("picker") \/ Shows("pages")
         /\ CountClick \/ UNCHANGED bounds
         /\ UNCHANGED <<account, auth, hash, storedApproval, inviteToken, login, server, asked>>
<1> DEFINE kinds == {"switch", "create", "accept", "decline", "join"}
           Picked == \E kind \in kinds, what \in Workspace \cup Invite,
                        button \in Button, seen \in Invite \cup {None} :
                       /\ what \in IF kind \in {"switch", "create"} THEN Workspace ELSE Invite
                       /\ Pick(kind, what, button, seen)
           SentFromSettings == \E kind \in {"create", "everywhere"}, what \in Workspace \cup {None} :
                       /\ kind = "create" => what \in Workspace
                       /\ Shows("pages") /\ Send(Asks(kind, what))
                       /\ UNCHANGED <<shell, login>>
                       /\ CountClick \/ UNCHANGED bounds
<1>1. linkPreview \in Invite \cup {None} /\ (linkPreview # None => inviteToken \in Invite)
  BY DEF linkPreview, TypeInv, TypeOK
<1>2. Picked \/ SentFromSettings
  <2>1. CASE \E w \in Workspace : switchWorkspace(w)
    BY <2>1 DEF switchWorkspace, Button
  <2>2. CASE \E w \in Workspace : createWorkspace(w)
    <3>1. PICK w \in Workspace : createWorkspace(w)
      BY <2>2
    <3>2. CASE Pick("create", w, "create", None)
      BY <3>2 DEF Button
    <3>3. CASE Shows("pages") /\ Send(Asks("create", w)) /\ CountClick /\ UNCHANGED <<shell, login>>
      BY <3>3
    <3> QED
      BY <3>1, <3>2, <3>3 DEF createWorkspace
  <2>3. CASE \E i \in Invite : acceptInvitation(i)
    BY <1>1, <2>3 DEF acceptInvitation, Button
  <2>4. CASE \E i \in Invite : declineInvitation(i)
    BY <1>1, <2>4 DEF declineInvitation, Button
  <2>5. CASE acceptInvite
    BY <1>1, <2>5 DEF acceptInvite, Button
  <2>6. CASE signOutEverywhere
    BY <2>6 DEF signOutEverywhere
  <2> QED
    BY <2>1, <2>2, <2>3, <2>4, <2>5, <2>6 DEF Picks
<1>3. CASE Picked
  <2>1. PICK kind \in kinds, what \in Workspace \cup Invite,
             button \in Button, seen \in Invite \cup {None} :
          /\ what \in IF kind \in {"switch", "create"} THEN Workspace ELSE Invite
          /\ Pick(kind, what, button, seen)
    BY <1>3
  <2>2. /\ Shows("picker") /\ CountClick
        /\ UNCHANGED <<account, auth, hash, storedApproval, inviteToken, login, server, asked>>
    BY <2>1 DEF Pick, Send
  <2>3. /\ shell' \in ShellStates
        /\ shell'.loaded = shell.loaded /\ shell'.error = shell.error /\ shell'.list = shell.list
        /\ inflight' \subseteq Requests
        /\ \E p : inflight' = inflight \cup {p} /\ p.kind = kind /\ p.status = "sent"
    BY <2>1, PickedRequest
  <2> QED
    BY <2>2, <2>3
<1>4. CASE SentFromSettings
  <2>1. PICK kind \in {"create", "everywhere"}, what \in Workspace \cup {None} :
          /\ kind = "create" => what \in Workspace
          /\ Shows("pages") /\ Send(Asks(kind, what))
          /\ UNCHANGED <<shell, login>>
          /\ CountClick \/ UNCHANGED bounds
    BY <1>4
  <2> DEFINE p == Asks(kind, what)
  <2>2. p \in Inflight /\ p.kind = kind /\ p.arg = what /\ p.status = "sent"
    BY <2>1, AskedRequests DEF Kind, Arg
  <2>3. /\ inflight' = inflight \cup {p}
        /\ UNCHANGED <<account, auth, hash, storedApproval, inviteToken, server, asked>>
    BY <2>1 DEF Send
  <2> HIDE DEF p
  <2>4. p \in Requests
    BY <2>1, <2>2 DEF Requests, Names
  <2> QED
    BY <2>1, <2>2, <2>3, <2>4 DEF TypeInv, TypeOK
<1> QED
  BY <1>2, <1>3, <1>4

\* What a step sends on its own, without the picker.
LEMMA SentRequests ==
  ASSUME TypeInv
  PROVE  /\ \A kind \in {"me", "logout", "workspaces"} : Asks(kind, None) \in Requests
         /\ \A u \in User : Asks("login", u) \in Requests
         /\ \A r \in Request, w \in Workspace \cup {None} :
              LET p == [Asks("request", r) EXCEPT !.seen = w]
              IN  p \in Requests /\ p.kind = "request" /\ p.status = "sent"
<1>1. ASSUME NEW kind \in {"me", "logout", "workspaces"}
      PROVE  Asks(kind, None) \in Requests
  <2>1. /\ Asks(kind, None) \in Inflight
        /\ Asks(kind, None).kind = kind
        /\ Asks(kind, None).status = "sent"
    BY AskedRequests DEF Kind, Arg
  <2> QED
    BY <2>1 DEF Requests, Names
<1>2. ASSUME NEW u \in User
      PROVE  Asks("login", u) \in Requests
  <2>1. /\ Asks("login", u) \in Inflight
        /\ Asks("login", u).kind = "login"
        /\ Asks("login", u).arg = u
    BY AskedRequests DEF Kind, Arg
  <2> QED
    BY <2>1 DEF Requests, Names
<1>3. ASSUME NEW r \in Request, NEW w \in Workspace \cup {None}
      PROVE  LET p == [Asks("request", r) EXCEPT !.seen = w]
             IN  p \in Requests /\ p.kind = "request" /\ p.status = "sent"
  <2> DEFINE p == [Asks("request", r) EXCEPT !.seen = w]
  <2>1. /\ Asks("request", r) \in Inflight
        /\ Asks("request", r).kind = "request"
        /\ Asks("request", r).arg = r
        /\ Asks("request", r).status = "sent"
    BY AskedRequests DEF Kind, Arg
  <2>2. p \in Inflight /\ p.kind = "request" /\ p.arg = r /\ p.status = "sent"
    BY <2>1 DEF Inflight
  <2> HIDE DEF p
  <2> QED
    BY <2>2 DEF Requests, Names, p
<1> QED
  BY <1>1, <1>2, <1>3

LEMMA PersonTypes ==
  ASSUME TypeInv, Person \/ takePendingApproval
  PROVE  TypeInv'
<1>0. /\ account \in User \cup {None}
      /\ auth \in {"checking", "failed", "signing out", "known"}
      /\ hash \in Address
      /\ storedApproval \in Request \cup {None}
      /\ inviteToken \in Invite \cup {None}
      /\ shell \in ShellStates
      /\ login \in LoginStates
      /\ inflight \subseteq Requests
      /\ asked \subseteq Address
      /\ visits \in 0 .. MaxVisits
      /\ clicks \in 0 .. MaxClicks
  BY DEF TypeInv, TypeOK
<1> USE DEF tab, server, teams, bounds
<1>1. CASE Reload
  BY <1>0, <1>1, LoadTypes DEF Reload, TypeInv, TypeOK
<1>2. ASSUME NEW u \in User, OAuthSignIn(u)
      PROVE  TypeInv'
  <2>1. /\ session' \in [user : User \cup {None}, workspace : Workspace \cup {None}]
        /\ session'.user # None
        /\ Load(Home) /\ Home \in Address
    BY <1>2, SessionAssumption DEF OAuthSignIn, Address
  <2> QED
    BY <2>1, LoadTypes
<1>3. ASSUME NEW u \in User, handleSubmit(u)
      PROVE  TypeInv'
  <2>1. login' \in LoginStates
    BY <1>0, <1>3 DEF handleSubmit, LoginStates
  <2>2. inflight' \subseteq Requests
    BY <1>0, <1>3, SentRequests DEF handleSubmit, Send
  <2> QED
    BY <1>0, <1>3, <2>1, <2>2, CountTypes, TabTypes DEF handleSubmit, Send
<1>4. ASSUME NEW r \in Request, OpenApprovalLink(r)
      PROVE  TypeInv'
  <2>1. r \in Address
    BY DEF Address
  <2> QED
    BY <1>0, <1>4, <2>1, CountTypes, TabTypes DEF OpenApprovalLink
<1>5. ASSUME NEW i \in Invite, OpenInviteLink(i)
      PROVE  TypeInv'
  <2>1. Home \in Address
    BY DEF Address
  <2>2. /\ ReplacesPreview(i) \subseteq Requests
        /\ inflight \cup PreviewOf(i) \subseteq Requests
    BY <1>0, ReplacedRequests, PreviewRequests
  <2>3. inflight' \subseteq Requests
    BY <1>0, <1>5, <2>2 DEF OpenInviteLink
  <2> QED
    BY <1>0, <1>5, <2>1, <2>3, CountTypes, TabTypes DEF OpenInviteLink
<1>6. CASE Picks
  <2>1. /\ shell' \in ShellStates
        /\ inflight' \subseteq Requests
        /\ CountClick \/ UNCHANGED bounds
        /\ UNCHANGED <<account, auth, hash, storedApproval, inviteToken, login, server, asked>>
    BY <1>6, PicksRequest
  <2> QED
    BY <1>0, <2>1, CountTypes, TabTypes
<1>7. ASSUME NEW address \in {Home, Other}, GoTo(address)
      PROVE  TypeInv'
  <2>1. address \in Address
    BY DEF Address
  <2> QED
    BY <1>0, <1>7, <2>1, CountTypes, TabTypes DEF GoTo
<1>8. ASSUME NEW token \in Invite \cup {None}, NEW new \in ShellStates, Choose(new, token)
      PROVE  TypeInv'
  <2>1. shell' \in ShellStates
    BY <1>8, ChosenShell
  <2> QED
    BY <1>0, <1>8, <2>1, CountTypes, TabTypes DEF Choose
<1>9. CASE ChooseWorkspace
  BY <1>0, <1>8, <1>9 DEF ChooseWorkspace, ShellStates
<1>10. CASE Back
  BY <1>0, <1>8, <1>10 DEF Back, ShellStates
<1>11. ASSUME NEW button \in Button, CloseBusy(button)
       PROVE  TypeInv'
  BY <1>0, <1>8, <1>11 DEF CloseBusy, ShellStates
<1>12. CASE dismissInvite
  BY <1>0, <1>8, <1>12 DEF dismissInvite
<1>13. CASE TryAgain
  <2>1. inflight' \subseteq Requests
    BY <1>0, <1>13, SentRequests DEF TryAgain
  <2> QED
    BY <1>0, <1>13, <2>1, TabTypes DEF TryAgain
<1>14. CASE ReloadWorkspaces
  <2>1. inflight' \subseteq Requests
    BY <1>0, <1>14, SentRequests DEF ReloadWorkspaces, Send
  <2>2. shell' \in ShellStates
    BY <1>0, <1>14 DEF ReloadWorkspaces, ShellStates
  <2> QED
    BY <1>0, <1>14, <2>1, <2>2, TabTypes DEF ReloadWorkspaces, Send
<1>15. CASE handleSignOut
  <2>1. inflight' \subseteq Requests
    BY <1>0, <1>15, SentRequests DEF handleSignOut
  <2> QED
    BY <1>0, <1>15, <2>1, CountTypes, TabTypes DEF handleSignOut
<1>16. CASE takePendingApproval
  <2>1. storedApproval \in Request /\ shell.active \in Workspace \cup {None}
    BY <1>0, <1>16 DEF takePendingApproval, ShellStates
  <2>2. inflight' \subseteq Requests
    <3> DEFINE w == IF needsPick THEN None ELSE shell.active
    <3>1. w \in Workspace \cup {None}
      BY <2>1
    <3>2. inflight' = inflight \cup {[Asks("request", storedApproval) EXCEPT !.seen = w]}
      BY <1>16 DEF takePendingApproval
    <3> HIDE DEF w
    <3> QED
      BY <1>0, <2>1, <3>1, <3>2, SentRequests
  <2> QED
    BY <1>0, <1>16, <2>2, TabTypes DEF takePendingApproval
<1> QED
  BY <1>1, <1>2, <1>3, <1>4, <1>5, <1>6, <1>7, <1>9, <1>10, <1>11, <1>12, <1>13, <1>14,
     <1>15, <1>16 DEF Person, Picks

LEMMA ServerTypes ==
  ASSUME TypeInv, \/ Revoke
                  \/ \E u \in User, w \in Workspace : RemoveMember(u, w)
                  \/ \E q \in inflight : Handle(q)
  PROVE  TypeInv'
<1>0. /\ session \in [user : User \cup {None}, workspace : Workspace \cup {None}]
      /\ session.user = None => session = NoSession
      /\ members \subseteq held /\ held \subseteq User \X Workspace
      /\ invites \in [Invite -> {"pending", "accepted", "revoked"}]
      /\ inflight \subseteq Requests
      /\ None \notin User
  BY SessionAssumption DEF TypeInv, TypeOK
<1>1. NoAnswer \in Answers
  BY DEF NoAnswer, Answers
<1>2. /\ NoSession \in [user : User \cup {None}, workspace : Workspace \cup {None}]
      /\ NoSession.user = None
  BY DEF NoSession
<1>3. ASSUME /\ session' \in [user : User \cup {None}, workspace : Workspace \cup {None}]
             /\ session'.user = None => session' = NoSession
             /\ members' \subseteq held' /\ held' \subseteq User \X Workspace
             /\ invites' \in [Invite -> {"pending", "accepted", "revoked"}]
             /\ inflight' \subseteq Requests
             /\ UNCHANGED <<tab, asked, bounds>>
      PROVE  TypeInv'
  BY <1>3 DEF TypeInv, TypeOK, Requests, tab, bounds
<1>4. ASSUME NEW q \in inflight, NEW status \in {"ok", "unauthorized", "failed"},
             q.kind = "me" => status # "ok"
      PROVE  Answered(q, status, NoAnswer) \in SUBSET Requests
  BY <1>0, <1>1, <1>4, AnsweredRequests
<1>5. CASE Revoke
  <2>1. Unauthorized(inflight) \subseteq Requests
    BY <1>0, ExpiredRequests
  <2> QED
    BY <1>0, <1>2, <1>3, <1>5, <2>1 DEF Revoke, teams
<1>11. ASSUME NEW u \in User, NEW w \in Workspace, RemoveMember(u, w)
       PROVE  TypeInv'
  BY <1>0, <1>3, <1>11 DEF RemoveMember
<1>6. ASSUME NEW q \in inflight, Refuse(q)
      PROVE  TypeInv'
  <2>1. CASE \E got \in OnlyInvitations(q) : inflight' = Answered(q, "failed", got)
    <3>1. q.kind = "workspaces" /\ List \in Answers
      BY <2>1, ListTypes DEF OnlyInvitations, Accepted, Public
    <3>2. [NoAnswer EXCEPT !.invitations = List.invitations] \in Answers
      BY <3>1 DEF NoAnswer, Answers
    <3>3. inflight' \subseteq Requests
      BY <1>0, <2>1, <3>1, <3>2, AnsweredRequests DEF OnlyInvitations
    <3> QED
      BY <1>0, <1>3, <1>6, <3>3 DEF Refuse, server, teams
  <2>2. CASE ~\E got \in OnlyInvitations(q) : inflight' = Answered(q, "failed", got)
    <3>1. inflight' \subseteq Requests
      BY <1>4, <1>6, <2>2 DEF Refuse
    <3> QED
      BY <1>0, <1>3, <1>6, <3>1 DEF Refuse, server, teams
  <2> QED
    BY <2>1, <2>2
<1>7. ASSUME NEW q \in inflight, Read(q)
      PROVE  TypeInv'
  <2>1. CASE q.kind \in {"workspaces", "invitations"}
    <3>1. List \in Answers
      BY <1>7, <2>1, ListTypes DEF Read, Accepted, Public
    <3>4. [List EXCEPT !.invitations = {}] \in Answers
      BY <3>1 DEF Answers
    <3>2. /\ Answered(q, "ok", List) \subseteq Requests
          /\ Answered(q, "ok", [List EXCEPT !.invitations = {}]) \subseteq Requests
      BY <1>0, <2>1, <3>1, <3>4, AnsweredRequests
    <3>3. inflight' \subseteq Requests
      BY <1>7, <2>1, <3>2 DEF Read
    <3> QED
      BY <1>0, <1>3, <1>7, <3>3 DEF Read, server, teams
  <2>2. CASE q.kind = "me"
    <3> DEFINE p == [q EXCEPT !.status = "ok", !.arg = session.user]
    <3>1. session.user \in User
      BY <1>7, <2>2, ListTypes DEF Read, Accepted, Public
    <3>2. q \in Inflight
      BY <1>0 DEF Requests
    <3>3. p \in Inflight /\ p.kind = "me" /\ p.arg = session.user
      BY <2>2, <3>1, <3>2 DEF Inflight, Arg
    <3>4. inflight' = (inflight \ {q}) \cup {p}
      BY <1>7, <2>2 DEF Read
    <3> HIDE DEF p
    <3>5. p \in Requests
      BY <3>1, <3>3 DEF Requests, Names
    <3>6. inflight' \subseteq Requests
      BY <1>0, <3>4, <3>5
    <3> QED
      BY <1>0, <1>3, <1>7, <3>6 DEF Read, server, teams
  <2>3. CASE q.kind = "request"
    <3>1. inflight' \subseteq Requests
      BY <1>4, <1>7, <2>3 DEF Read
    <3> QED
      BY <1>0, <1>3, <1>7, <3>1 DEF Read, server, teams
  <2> QED
    BY <1>7, <2>1, <2>2, <2>3 DEF Read
<1>8. ASSUME NEW q \in inflight, ChangeSession(q)
      PROVE  TypeInv'
  <2>1. inflight' \subseteq Requests
    BY <1>4, <1>8, ExpiredRequests DEF ChangeSession
  <2>2. /\ session' \in [user : User \cup {None}, workspace : Workspace \cup {None}]
        /\ session'.user = None => session' = NoSession
    BY <1>0, <1>2, <1>8 DEF ChangeSession, Requests, Names
  <2> QED
    BY <1>0, <1>3, <1>8, <2>1, <2>2 DEF ChangeSession, teams
<1>9. ASSUME NEW q \in inflight, Join(q)
      PROVE  TypeInv'
  <2>1. inflight' \subseteq Requests
    BY <1>4, <1>9 DEF Join
  <2>2. session.user \in User
    BY <1>9, ListTypes DEF Join, Accepted, Public
  <2>3. /\ q.kind \in {"switch", "create"} => q.arg \in Workspace
        /\ q.kind \in {"join", "accept"} => InviteWorkspace[q.arg] \in Workspace
    BY <1>0, SessionAssumption DEF Requests, Names
  <2>4. PICK w \in Workspace : session' = [session EXCEPT !.workspace = w]
    BY <1>9, <2>3 DEF Join, Enters
  <2>5. /\ session' \in [user : User \cup {None}, workspace : Workspace \cup {None}]
        /\ session'.user = session.user
    BY <1>0, <2>4
  <2>6. members' \subseteq held' /\ held' \subseteq User \X Workspace
    BY <1>0, <1>9, <2>2, <2>3 DEF Join, Enters, teams
  <2>7. invites' \in [Invite -> {"pending", "accepted", "revoked"}]
    BY <1>0, <1>9 DEF Join
  <2>8. session'.user # None
    BY <1>0, <2>2, <2>5
  <2> QED
    BY <1>3, <1>9, <2>1, <2>5, <2>6, <2>7, <2>8 DEF Join
<1>10. ASSUME NEW q \in inflight, Decline(q)
       PROVE  TypeInv'
  <2>1. inflight' \subseteq Requests
    BY <1>4, <1>10 DEF Decline
  <2>2. invites' \in [Invite -> {"pending", "accepted", "revoked"}]
    BY <1>0, <1>10 DEF Decline
  <2> QED
    BY <1>0, <1>3, <1>10, <2>1, <2>2 DEF Decline, teams
<1> QED
  BY <1>5, <1>6, <1>7, <1>8, <1>9, <1>10, <1>11 DEF Handle

\* What a handler awaits next.
LEMMA AwaitedRequest ==
  ASSUME NEW q \in Requests, NEW next \in Requests, Awaits(q, next)
  PROVE  \E p \in Requests : /\ inflight' = Others(q) \cup {p}
                             /\ p.kind = next.kind /\ p.status = next.status
                             /\ p.mine = q.mine
<1> DEFINE p == [next EXCEPT !.mine = q.mine]
<1>1. next \in Inflight /\ q.mine \in BOOLEAN /\ Names(next)
  BY DEF Requests, Inflight
<1>2. /\ p \in Inflight
      /\ p.kind = next.kind /\ p.arg = next.arg /\ p.for = next.for
      /\ p.status = next.status /\ p.mine = q.mine
  BY <1>1 DEF Inflight
<1>3. inflight' = Others(q) \cup {p}
  BY DEF Awaits
<1> HIDE DEF p
<1>4. p \in Requests
  BY <1>1, <1>2 DEF Names, Requests
<1> QED
  BY <1>2, <1>3, <1>4

\* The requests that handlers await.
IsNext(p, kind) == p \in Requests /\ p.kind = kind /\ p.status = "sent"

LEMMA NextRequests ==
  ASSUME NEW home \in BOOLEAN, NEW button \in Button \cup {"none"}, NEW seen \in Invite \cup {None}
  PROVE  /\ IsNext([Asks("workspaces", None) EXCEPT !.home = home], "workspaces")
         /\ IsNext([Asks("workspaces", None) EXCEPT !.button = button], "workspaces")
         /\ IsNext([Asks("workspaces", None) EXCEPT !.home = home, !.button = button],
                   "workspaces")
         /\ IsNext([Asks("workspaces", None) EXCEPT !.button = button, !.home = home,
                                                    !.seen = seen], "workspaces")
         /\ IsNext([Asks("invitations", None) EXCEPT !.button = button, !.seen = seen],
                   "invitations")
<1>1. ASSUME NEW kind \in {"workspaces", "invitations"}, NEW p \in Inflight, p.kind = kind,
             p.status = "sent"
      PROVE  IsNext(p, kind)
  BY <1>1 DEF Requests, Names, IsNext
<1>2. /\ Asks("workspaces", None) \in Inflight
      /\ Asks("workspaces", None).kind = "workspaces"
      /\ Asks("workspaces", None).status = "sent"
      /\ Asks("invitations", None) \in Inflight
      /\ Asks("invitations", None).kind = "invitations"
      /\ Asks("invitations", None).status = "sent"
  BY AskedRequests DEF Kind, Arg
<1>3. IsNext([Asks("workspaces", None) EXCEPT !.home = home], "workspaces")
  BY <1>1, <1>2 DEF Inflight
<1>4. IsNext([Asks("workspaces", None) EXCEPT !.button = button], "workspaces")
  BY <1>1, <1>2 DEF Inflight
<1>5. IsNext([Asks("workspaces", None) EXCEPT !.home = home, !.button = button], "workspaces")
  BY <1>1, <1>2 DEF Inflight
<1>6. IsNext([Asks("workspaces", None) EXCEPT !.button = button, !.home = home, !.seen = seen],
             "workspaces")
  BY <1>1, <1>2 DEF Inflight
<1>7. IsNext([Asks("invitations", None) EXCEPT !.button = button, !.seen = seen],
             "invitations")
  BY <1>1, <1>2 DEF Inflight
<1> QED
  BY <1>3, <1>4, <1>5, <1>6, <1>7

LEMMA LinkSwitch ==
  ASSUME NEW r \in Request
  PROVE  IsNext([Asks("switch", RequestWorkspace[r]) EXCEPT !.for = r], "switch")
<1> DEFINE w == RequestWorkspace[r]
           p == [Asks("switch", w) EXCEPT !.for = r]
<1>1. w \in Workspace /\ w \in Arg /\ "switch" \in Kind
  BY SessionAssumption DEF Arg, Kind
<1> HIDE DEF w
<1>2. /\ Asks("switch", w) \in Inflight
      /\ Asks("switch", w).kind = "switch"
      /\ Asks("switch", w).arg = w
      /\ Asks("switch", w).status = "sent"
  BY <1>1, AskedRequests
<1>3. p \in Inflight /\ p.kind = "switch" /\ p.arg = w /\ p.for = r /\ p.status = "sent"
  BY <1>2 DEF Inflight
<1> HIDE DEF p
<1>4. p \in Requests
  BY <1>1, <1>3 DEF Requests, Names, w
<1> QED
  BY <1>3, <1>4 DEF IsNext, p, w

\* An answer after which the same session goes on: its handler may move to another
\* page, and awaits at most one request more, as a component that is mounted if it is.
GoesOn(q) ==
  /\ \E new \in SUBSET Requests :
       /\ inflight' = Others(q) \cup new
       /\ \A p \in new : /\ p.kind \in {"workspaces", "invitations", "switch"}
                         /\ p.status = "sent" /\ p.mine = q.mine /\ q.kind # "preview"
  /\ shell' \in ShellStates
  /\ login' \in LoginStates
  /\ \/ hash' \in {hash, Home}
     \/ q.mine /\ q.kind # "preview" /\ q.for \in Request /\ hash' = q.for
     \/ q.mine /\ q.kind # "preview" /\ q.arg \in Request /\ hash' = q.arg
  /\ inviteToken' \in {inviteToken, None}
  /\ UNCHANGED <<account, auth, storedApproval>>

KeepsList == shell'.loaded = shell.loaded /\ shell'.error = shell.error /\ shell'.list = shell.list

LEMMA OrdinaryDelivery ==
  ASSUME TypeInv, NEW q \in inflight,
         \/ previewed(q) \/ reloadInvitations(q) \/ switchTo(q) \/ openLink(q)
         \/ created(q) \/ acceptedInvitation(q) \/ declinedInvitation(q) \/ handleJoined(q)
  PROVE  /\ GoesOn(q)
         /\ KeepsList
         /\ login'.busy = login.busy
         /\ q.kind \in {"preview", "invitations", "switch", "request", "create", "accept",
                        "decline", "join"}
<1>0. /\ q \in Requests /\ q \in Inflight /\ Names(q)
      /\ shell \in ShellStates
      /\ login \in LoginStates
      /\ inviteToken \in Invite \cup {None}
  BY DEF TypeInv, TypeOK, Requests
<1>1. /\ q.mine \in BOOLEAN
      /\ q.for \in Request \cup {None}
      /\ q.got \in Answers
      /\ q.got.invitations \subseteq Invite
      /\ q.button \in Button \cup {"none"}
  BY <1>0 DEF Inflight, Answers
<1> USE DEF tab
<1>2. ASSUME inflight' = Others(q), shell' \in ShellStates, login' \in LoginStates, KeepsList,
             login'.busy = login.busy,
             inviteToken' \in {inviteToken, None},
             UNCHANGED <<account, auth, storedApproval>>,
             \/ hash' \in {hash, Home}
             \/ q.mine /\ q.kind # "preview" /\ q.for \in Request /\ hash' = q.for
             \/ q.mine /\ q.kind # "preview" /\ q.arg \in Request /\ hash' = q.arg
      PROVE  GoesOn(q) /\ KeepsList /\ login'.busy = login.busy
  <2>1. inflight' = Others(q) \cup {} /\ {} \in SUBSET Requests
    BY <1>2
  <2> QED
    BY <1>2, <2>1 DEF GoesOn
<1>3. ASSUME NEW next, NEW kind \in {"workspaces", "invitations", "switch"},
             IsNext(next, kind), Awaits(q, next), q.kind # "preview",
             shell' \in ShellStates, KeepsList,
             inviteToken' \in {inviteToken, None},
             UNCHANGED <<account, auth, storedApproval, hash, login>>
      PROVE  GoesOn(q) /\ KeepsList /\ login'.busy = login.busy
  <2>1. PICK p \in Requests : /\ inflight' = Others(q) \cup {p}
                              /\ p.kind = next.kind /\ p.status = next.status
                              /\ p.mine = q.mine
    BY <1>0, <1>3, AwaitedRequest DEF IsNext
  <2>2. {p} \in SUBSET Requests
    BY <2>1
  <2> QED
    BY <1>0, <1>3, <2>1, <2>2 DEF GoesOn, IsNext
<1>4. CASE previewed(q)
  <2>1. q.kind = "preview" /\ q.arg \in Invite
    BY <1>0, <1>4 DEF previewed, Names
  <2>2. shell' \in ShellStates /\ KeepsList
    BY <1>0, <1>4, <2>1 DEF previewed, KeepsList, ShellStates
  <2>3. login' \in LoginStates /\ login'.busy = login.busy
    BY <1>0, <1>4, <2>1 DEF previewed, LoginStates
  <2> QED
    BY <1>2, <1>4, <2>1, <2>2, <2>3 DEF previewed
<1>5. CASE reloadInvitations(q)
  <2> DEFINE new == [shell EXCEPT !.invitations = q.got.invitations]
  <2>1. /\ new \in ShellStates
        /\ new.loaded = shell.loaded /\ new.error = shell.error /\ new.list = shell.list
    BY <1>0, <1>1 DEF ShellStates
  <2>2. Update(q, new, inviteToken')
    BY <1>5 DEF reloadInvitations
  <2> HIDE DEF new
  <2>3. shell' \in ShellStates /\ KeepsList
    BY <1>0, <2>1, <2>2, UpdatedShell DEF KeepsList
  <2>4. inviteToken' \in {inviteToken, None}
    BY <1>5 DEF reloadInvitations
  <2> QED
    BY <1>0, <1>2, <1>5, <2>3, <2>4 DEF reloadInvitations
<1>6. CASE switchTo(q)
  <2> DEFINE new == [shell EXCEPT !.active = q.arg, !.selected = TRUE,
                                  !.choosing = @ /\ q.for # None]
  <2>1. q.arg \in Workspace
    BY <1>0, <1>6 DEF switchTo, Names
  <2>2. /\ new \in ShellStates
        /\ new.loaded = shell.loaded /\ new.error = shell.error /\ new.list = shell.list
    BY <1>0, <2>1 DEF ShellStates
  <2>3. Update(q, new, inviteToken) \/ Update(q, shell, inviteToken)
    BY <1>6 DEF switchTo
  <2> HIDE DEF new
  <2>4. shell' \in ShellStates /\ KeepsList
    BY <1>0, <2>2, <2>3, UpdatedShell DEF KeepsList
  <2>5. /\ q.kind # "preview"
        /\ hash' \in {hash, Home} \/ (q.mine /\ q.for \in Request /\ hash' = q.for)
    BY <1>1, <1>6 DEF switchTo, Opened
  <2> QED
    BY <1>0, <1>2, <1>6, <2>4, <2>5 DEF switchTo
<1>7. CASE openLink(q)
  <2>1. q.arg \in Request /\ KeepsList
    BY <1>0, <1>7 DEF openLink, Names, KeepsList
  <2>2. CASE q.status = "ok" /\ q.seen # RequestWorkspace[q.arg]
    <3> DEFINE next == [Asks("switch", RequestWorkspace[q.arg]) EXCEPT !.for = q.arg]
    <3>1. IsNext(next, "switch")
      BY <2>1, LinkSwitch
    <3>2. Awaits(q, next)
      BY <1>7, <2>2 DEF openLink
    <3> HIDE DEF next
    <3> QED
      BY <1>0, <1>3, <1>7, <2>1, <2>2, <3>1, <3>2 DEF openLink
  <2>3. CASE ~(q.status = "ok" /\ q.seen # RequestWorkspace[q.arg])
    BY <1>0, <1>2, <1>7, <2>1, <2>3 DEF openLink
  <2> QED
    BY <1>7, <2>2, <2>3 DEF openLink
<1>8. CASE created(q)
  <2>1. CASE q.status = "ok"
    <3> DEFINE next == [Asks("workspaces", None) EXCEPT !.home = TRUE, !.button = q.button]
    <3>0. TRUE \in BOOLEAN /\ None \in Invite \cup {None}
      OBVIOUS
    <3>1. IsNext(next, "workspaces")
      BY <1>1, <3>0, NextRequests
    <3>2. Awaits(q, next)
      BY <1>8, <2>1 DEF created
    <3>3. KeepsList
      BY <1>8, <2>1 DEF created, KeepsList
    <3> HIDE DEF next
    <3> QED
      BY <1>0, <1>3, <1>8, <2>1, <3>1, <3>2, <3>3 DEF created
  <2>2. CASE q.status # "ok"
    <3>1. shell' \in ShellStates /\ KeepsList
      BY <1>0, <1>8, <2>2, UpdatedShell DEF created, KeepsList
    <3> QED
      BY <1>0, <1>2, <1>8, <2>2, <3>1 DEF created
  <2> QED
    BY <1>8, <2>1, <2>2 DEF created
<1>9. CASE acceptedInvitation(q)
  <2> DEFINE seen == IF q.status = "ok" /\ q.seen = q.arg THEN q.arg ELSE None
             home == q.status = "ok"
             next == [Asks("workspaces", None) EXCEPT !.button = "list", !.home = home,
                                                      !.seen = seen]
  <2>1. seen \in Invite \cup {None} /\ home \in BOOLEAN /\ "list" \in Button
    BY <1>0, <1>9 DEF acceptedInvitation, Names, Button
  <2>2. Awaits(q, next)
    BY <1>9 DEF acceptedInvitation
  <2> HIDE DEF seen, home
  <2>3. IsNext(next, "workspaces")
    BY <2>1, NextRequests
  <2>4. KeepsList
    BY <1>9 DEF acceptedInvitation, KeepsList
  <2> HIDE DEF next
  <2> QED
    BY <1>0, <1>3, <1>9, <2>2, <2>3, <2>4 DEF acceptedInvitation
<1>10. CASE declinedInvitation(q)
  <2> DEFINE seen == IF q.seen = q.arg THEN q.arg ELSE None
             next == IF q.status = "ok"
                     THEN [Asks("invitations", None) EXCEPT !.button = "list", !.seen = seen]
                     ELSE [Asks("workspaces", None) EXCEPT !.button = "list"]
  <2>1. seen \in Invite \cup {None} /\ "list" \in Button
    BY <1>0, <1>10 DEF declinedInvitation, Names, Button
  <2>2. Awaits(q, next)
    BY <1>10 DEF declinedInvitation
  <2> HIDE DEF seen
  <2>3. IsNext(next, IF q.status = "ok" THEN "invitations" ELSE "workspaces")
    <3>1. IsNext([Asks("workspaces", None) EXCEPT !.button = "list"], "workspaces")
      BY <2>1, NextRequests
    <3>2. IsNext([Asks("invitations", None) EXCEPT !.button = "list", !.seen = seen],
                 "invitations")
      BY <2>1, NextRequests
    <3> QED
      BY <3>1, <3>2
  <2>4. KeepsList
    BY <1>10 DEF declinedInvitation, KeepsList
  <2> HIDE DEF next
  <2> QED
    BY <1>0, <1>3, <1>10, <2>2, <2>3, <2>4 DEF declinedInvitation
<1>11. CASE handleJoined(q)
  <2>1. CASE q.status = "ok"
    <3> DEFINE next == [Asks("workspaces", None) EXCEPT !.home = TRUE]
               new == [shell EXCEPT !.choosing = FALSE]
    <3>0. TRUE \in BOOLEAN /\ "list" \in Button /\ None \in Invite \cup {None}
      BY DEF Button
    <3>1. IsNext(next, "workspaces")
      BY <3>0, NextRequests
    <3>2. Awaits(q, next) /\ Update(q, new, None)
      BY <1>11, <2>1 DEF handleJoined
    <3>3. /\ new \in ShellStates
          /\ new.loaded = shell.loaded /\ new.error = shell.error /\ new.list = shell.list
      BY <1>0 DEF ShellStates
    <3> HIDE DEF next, new
    <3>4. shell' \in ShellStates /\ KeepsList
      BY <1>0, <3>2, <3>3, UpdatedShell DEF KeepsList
    <3> QED
      BY <1>0, <1>3, <1>11, <2>1, <3>1, <3>2, <3>4 DEF handleJoined
  <2>2. CASE q.status # "ok"
    <3>1. shell' \in ShellStates /\ KeepsList
      BY <1>0, <1>11, <2>2, UpdatedShell DEF handleJoined, KeepsList
    <3> QED
      BY <1>0, <1>2, <1>11, <2>2, <3>1 DEF handleJoined
  <2> QED
    BY <1>11, <2>1, <2>2 DEF handleJoined
<1> QED
  BY <1>4, <1>5, <1>6, <1>7, <1>8, <1>9, <1>10, <1>11
     DEF previewed, reloadInvitations, switchTo, openLink, created, acceptedInvitation,
         declinedInvitation, handleJoined

\* A reload that was not refused: the list it brings is shown if it is there and the
\* component still is, and the shell then loads no more.
LEMMA ReloadDelivery ==
  ASSUME TypeInv, NEW q \in inflight, reload(q), q.status # "unauthorized"
  PROVE  /\ GoesOn(q)
         /\ login' = login
         /\ q.mine => shell'.loaded \/ shell'.error
         /\ ~q.mine => KeepsList
         /\ shell'.list = shell.list \/ (q.mine /\ q.status = "ok" /\ shell'.list = q.got.list)
<1>0. /\ q \in Requests /\ q.got \in Answers
      /\ shell \in ShellStates
      /\ login \in LoginStates
  BY DEF TypeInv, TypeOK, Requests, Inflight
<1> DEFINE failed == loadFailed(shell)
           answered == IF q.status = "ok" THEN loadedWith(shell, q.got)
                       ELSE [failed EXCEPT !.invitations = q.got.invitations]
           new == [answered EXCEPT !.choosing = @ /\ ~q.home]
<1>1. /\ answered \in ShellStates
      /\ answered.loaded \/ answered.error
      /\ answered.list = shell.list \/ (q.status = "ok" /\ answered.list = q.got.list)
  <2>1. /\ failed \in ShellStates /\ failed.list = shell.list
        /\ failed.loaded \/ failed.error
    BY <1>0 DEF loadFailed, ShellStates
  <2>2. q.got.invitations \subseteq Invite
    BY <1>0 DEF Answers
  <2>3. LET loaded == loadedWith(shell, q.got)
        IN  loaded \in ShellStates /\ loaded.loaded /\ loaded.list = q.got.list
    BY <1>0 DEF loadedWith, ShellStates, Answers
  <2> HIDE DEF failed
  <2>4. LET kept == [failed EXCEPT !.invitations = q.got.invitations]
        IN  /\ kept \in ShellStates /\ kept.list = failed.list
            /\ kept.loaded = failed.loaded /\ kept.error = failed.error
    BY <2>1, <2>2 DEF ShellStates
  <2> QED
    BY <2>1, <2>3, <2>4
<1>2. Update(q, new, inviteToken')
  BY DEF reload
<1> HIDE DEF answered
<1>3. /\ new \in ShellStates
      /\ new.loaded = answered.loaded /\ new.error = answered.error /\ new.list = answered.list
  BY <1>1 DEF ShellStates
<1> HIDE DEF new
<1>4. /\ shell' \in ShellStates
      /\ ~q.mine => shell' = shell
      /\ q.mine => /\ shell'.loaded = new.loaded /\ shell'.error = new.error
                   /\ shell'.list = new.list
  BY <1>0, <1>2, <1>3, UpdatedShell
<1>5. GoesOn(q)
  <2>1. /\ inflight' = Others(q) \cup {}
        /\ {} \in SUBSET Requests
        /\ hash' \in {hash, Home}
        /\ inviteToken' \in {inviteToken, None}
        /\ UNCHANGED <<account, auth, storedApproval, login>>
    BY DEF reload
  <2> QED
    BY <1>0, <1>4, <2>1 DEF GoesOn
<1> QED
  BY <1>1, <1>3, <1>4, <1>5 DEF reload, KeepsList

LEMMA GoesOnTypes ==
  ASSUME TypeInv, NEW q \in inflight, GoesOn(q),
         asked' \subseteq Address, UNCHANGED <<server, bounds>>
  PROVE  TypeInv'
<1>1. /\ hash \in Address /\ Home \in Address /\ Request \subseteq Address
      /\ inflight \subseteq Requests /\ Others(q) \subseteq inflight
  BY DEF TypeInv, TypeOK, Address, Others
<1>2. hash' \in Address /\ inflight' \subseteq Requests
  BY <1>1 DEF GoesOn
<1> QED
  BY <1>2, TabTypes DEF GoesOn, TypeInv, TypeOK, server, teams, bounds

LEMMA EndSessionTypes ==
  ASSUME TypeInv, NEW S \in SUBSET Requests, endSession(S),
         auth' \in {auth, "known"}, storedApproval' = storedApproval,
         inviteToken' \in {inviteToken, None},
         asked' \subseteq Address, UNCHANGED <<server, bounds>>
  PROVE  TypeInv'
<1>1. Home \in Address
  BY DEF Address
<1>2. shell' \in ShellStates /\ login' \in LoginStates /\ inflight' \subseteq Requests
  BY MountedLogin DEF endSession, Mounted, TypeInv, TypeOK
<1> QED
  BY <1>1, <1>2, TabTypes DEF endSession, TypeInv, TypeOK, server, teams, bounds

LEMMA DeliverTypes ==
  ASSUME TypeInv, NEW q \in inflight, Deliver(q)
  PROVE  TypeInv'
<1>0. /\ q \in Requests /\ q \in Inflight /\ Names(q)
      /\ Others(q) \in SUBSET Requests
      /\ asked' \subseteq Address
      /\ UNCHANGED <<server, bounds>>
  BY DEF Deliver, TypeInv, TypeOK, Requests, Others
<1>1. CASE restored(q)
  <2>1. CASE q.status = "ok"
    <3>1. account' = q.arg /\ auth' = "known" /\ MountShell(Others(q)) /\ q.arg \in User
      BY <1>0, <1>1, <2>1 DEF restored, Names
    <3>2. Mounted(Others(q), {"workspaces", "preview"})
      BY <1>0, <3>1, MountedShell
    <3> QED
      BY <1>0, <1>1, <3>1, <3>2, TabTypes DEF restored, Mounted, TypeInv, TypeOK, server, teams, bounds
  <2>2. CASE q.status = "unauthorized"
    <3>1. account' = None /\ auth' = "known" /\ MountLogin(Others(q))
      BY <1>1, <2>2 DEF restored
    <3>2. Mounted(Others(q), {"preview"})
      BY <1>0, <3>1, MountedLogin
    <3> QED
      BY <1>0, <1>1, <3>1, <3>2, TabTypes DEF restored, Mounted, TypeInv, TypeOK, server, teams, bounds
  <2>3. CASE q.status \notin {"ok", "unauthorized"}
    <3>1. auth' = "failed" /\ inflight' = Others(q) /\ UNCHANGED <<account, shell, login>>
      BY <1>1, <2>3 DEF restored
    <3> QED
      BY <1>0, <1>1, <3>1, TabTypes DEF restored, TypeInv, TypeOK, server, teams, bounds
  <2> QED
    BY <2>1, <2>2, <2>3
<1>2. CASE signIn(q)
  <2>1. CASE q.status = "ok"
    <3>1. account' = q.arg /\ MountShell(Others(q)) /\ q.arg \in User
      BY <1>0, <1>2, <2>1 DEF signIn, Names
    <3>2. Mounted(Others(q), {"workspaces", "preview"})
      BY <1>0, <3>1, MountedShell
    <3> QED
      BY <1>0, <1>2, <3>1, <3>2, TabTypes DEF signIn, Mounted, TypeInv, TypeOK, server, teams, bounds
  <2>2. CASE q.status # "ok"
    <3>1. /\ login' = [login EXCEPT !.busy = FALSE] /\ inflight' = Others(q)
          /\ UNCHANGED <<account, shell>>
      BY <1>2, <2>2 DEF signIn
    <3>2. login' \in LoginStates
      BY <3>1 DEF TypeInv, TypeOK, LoginStates
    <3> QED
      BY <1>0, <1>2, <3>1, <3>2, TabTypes DEF signIn, TypeInv, TypeOK, server, teams, bounds
  <2> QED
    BY <2>1, <2>2
<1>3. CASE signOut(q)
  <2>1. CASE q.status = "ok"
    BY <1>0, <1>3, <2>1, EndSessionTypes DEF signOut
  <2>2. CASE q.status # "ok"
    BY <1>0, <1>3, <2>2, TabTypes DEF signOut, TypeInv, TypeOK, server, teams, bounds
  <2> QED
    BY <2>1, <2>2
<1>4. CASE reload(q)
  <2>1. CASE q.status = "unauthorized"
    BY <1>0, <1>4, <2>1, EndSessionTypes DEF reload
  <2>2. CASE q.status # "unauthorized"
    BY <1>0, <1>4, <2>2, ReloadDelivery, GoesOnTypes
  <2> QED
    BY <2>1, <2>2
<1>5. CASE \/ previewed(q) \/ reloadInvitations(q) \/ switchTo(q) \/ openLink(q)
           \/ created(q) \/ acceptedInvitation(q) \/ declinedInvitation(q) \/ handleJoined(q)
  BY <1>0, <1>5, OrdinaryDelivery, GoesOnTypes
<1> QED
  BY <1>1, <1>2, <1>3, <1>4, <1>5 DEF Deliver

LEMMA NextTypes ==
  ASSUME TypeInv, [Next]_vars
  PROVE  TypeInv'
<1>1. CASE UNCHANGED vars
  BY <1>1 DEF vars, tab, server, teams, bounds, TypeInv, TypeOK
<1>2. CASE Next
  BY <1>2, PersonTypes, ServerTypes, DeliverTypes DEF Next
<1> QED
  BY <1>1, <1>2
------------------------------------------------------------------------------
(* Whose session the tab shows, and what its spinners wait for.             *)

SignIn(q) == q.kind \in {"me", "login"}

\* The session is known to be there or not: a sign-out that is on its way changes nothing.
Known == {"known", "signing out"}
KeepsAuth == auth' = auth \/ {auth, auth'} \subseteq Known
USE DEF Known, KeepsAuth

\* The workspaces u belongs or belonged to.
Held(u) == {w \in Workspace : <<u, w>> \in held}

\* What may be on its way on each screen, and whom an answer is about: before the
\* session is known only the request for it; no sign-in beside a shell; whatever asks
\* for workspaces on behalf of the shown user brings that user's.
Fits(q) ==
  /\ auth \notin Known => q.kind = "me" /\ q.mine
  /\ q.kind = "me" => auth = "checking"
  /\ q.kind = "login" => auth \in Known /\ account = None /\ login.busy
  /\ account = None /\ q.mine => q.kind \in {"me", "login", "preview"}
  /\ SignIn(q) /\ q.status = "ok" => session.user \in {q.arg, None}
  /\ q.kind = "workspaces" /\ q.mine /\ q.status = "ok" /\ account # None
       => q.got.list \subseteq Held(account)

\* Under a shell the cookie's session is the shown user's or over.
UserInv ==
  account # None => /\ auth \in Known
                    /\ session.user \in {account, None}
                    /\ shell.list \subseteq Held(account)

OneSignIn == \A p, q \in inflight : SignIn(p) /\ SignIn(q) => p = q

\* LoadingIsUnderWay, by screen.
SpinnerInv ==
  /\ auth = "checking" => inflight # {}
  /\ account # None => \/ shell.loaded \/ shell.error
                       \/ \E q \in inflight : q.mine /\ q.kind = "workspaces"

TabInv == UserInv /\ OneSignIn /\ SpinnerInv /\ \A q \in inflight : Fits(q)

\* What is sent while the session is known, other than a sign-in.
Fresh(p) == /\ p.status = "sent" /\ ~SignIn(p)
            /\ auth \in Known /\ (account = None /\ p.mine => p.kind = "preview")

\* A step of the signed-in or signed-out tab that takes some answers and sends some
\* requests, no sign-in among them.
LEMMA OrdinaryStep ==
  ASSUME TabInv, NEW gone, NEW new,
         \A q \in gone : ~SignIn(q),
         \A p \in new : Fresh(p),
         inflight' = (inflight \ gone) \cup new,
         KeepsAuth, UNCHANGED <<account, session, held>>,
         login'.busy = login.busy,
         account # None => shell'.list \subseteq Held(account),
         \/ account = None
         \/ shell'.loaded \/ shell'.error
         \/ \E p \in new : p.mine /\ p.kind = "workspaces"
         \/ /\ shell'.loaded = shell.loaded /\ shell'.error = shell.error
            /\ \A q \in gone : q.mine => q.kind # "workspaces"
  PROVE  TabInv'
<1>1. UserInv'
  BY DEF TabInv, UserInv, Held
<1>2. OneSignIn'
  BY DEF TabInv, OneSignIn, Fresh
<1>3. SpinnerInv'
  <2>1. ASSUME auth = "checking"
        PROVE  inflight' # {}
    BY <2>1 DEF TabInv, SpinnerInv, Fits, SignIn
  <2>2. ASSUME account # None
        PROVE  \/ shell'.loaded \/ shell'.error
               \/ \E q \in inflight' : q.mine /\ q.kind = "workspaces"
    BY <2>2 DEF TabInv, SpinnerInv
  <2> QED
    BY <2>1, <2>2 DEF SpinnerInv
<1>4. ASSUME NEW p \in inflight'
      PROVE  Fits(p)'
  <2>1. CASE p \in inflight
    BY <2>1 DEF TabInv, Fits, Held
  <2>2. CASE p \in new
    BY <2>2 DEF Fresh, Fits, SignIn
  <2> QED
    BY <2>1, <2>2
<1> QED
  BY <1>1, <1>2, <1>3, <1>4 DEF TabInv

\* The same for a step that only sends.
LEMMA SendStep ==
  ASSUME TabInv, NEW new,
         \A p \in new : Fresh(p),
         inflight' = inflight \cup new,
         KeepsAuth, UNCHANGED <<account, session, held>>,
         login'.busy = login.busy,
         shell'.list = shell.list,
         \/ account = None
         \/ \E p \in new : p.mine /\ p.kind = "workspaces"
         \/ KeepsList
  PROVE  TabInv'
<1> DEFINE gone == {}
<1>1. (\A q \in gone : FALSE) /\ inflight' = (inflight \ gone) \cup new
  OBVIOUS
<1>2. account # None => shell'.list \subseteq Held(account)
  BY DEF TabInv, UserInv
<1> HIDE DEF gone
<1> QED
  BY <1>1, <1>2, OrdinaryStep DEF KeepsList

\* And for one that sends nothing.
LEMMA QuietStep ==
  ASSUME TabInv, inflight' = inflight, KeepsList, login'.busy = login.busy,
         KeepsAuth, UNCHANGED <<account, session, held>>
  PROVE  TabInv'
<1> DEFINE new == {}
<1>1. (\A q \in new : FALSE) /\ inflight' = inflight \cup new
  OBVIOUS
<1> HIDE DEF new
<1> QED
  BY <1>1, SendStep DEF KeepsList

\* A step of the server: it answers q, or ends what the session allowed.
LEMMA ServerStep ==
  ASSUME TypeInv, TabInv, UNCHANGED tab, held \subseteq held',
         session'.user \in {session.user, None},
         OneSignIn',
         \A p \in inflight' : \E q \in inflight :
           /\ p.kind = q.kind /\ p.mine = q.mine
           /\ \/ p.arg = q.arg /\ p.status = q.status /\ p.got = q.got
              \/ p.status # "ok" \/ p.kind \notin {"me", "login", "workspaces"}
              \/ SignIn(p) /\ session'.user \in {p.arg, None}
              \/ p.kind = "workspaces" /\ (account # None => p.got.list \subseteq Held(account)),
         \A q \in inflight : \E p \in inflight' : p.kind = q.kind /\ p.mine = q.mine
  PROVE  TabInv'
<1>0. UNCHANGED <<account, auth, shell, login>>
  BY DEF tab
<1>1. Held(account) \subseteq Held(account)'
  BY <1>0 DEF Held
<1>2. UserInv'
  BY <1>0, <1>1 DEF TabInv, UserInv
<1>3. SpinnerInv'
  BY <1>0 DEF TabInv, SpinnerInv
<1>4. ASSUME NEW p \in inflight'
      PROVE  Fits(p)'
  <2>1. PICK q \in inflight :
          /\ p.kind = q.kind /\ p.mine = q.mine
          /\ \/ p.arg = q.arg /\ p.status = q.status /\ p.got = q.got
             \/ p.status # "ok" \/ p.kind \notin {"me", "login", "workspaces"}
             \/ SignIn(p) /\ session'.user \in {p.arg, None}
             \/ p.kind = "workspaces" /\ (account # None => p.got.list \subseteq Held(account))
    OBVIOUS
  <2>2. Fits(q)
    BY DEF TabInv
  <2> QED
    BY <1>0, <1>1, <2>1, <2>2 DEF Fits, SignIn
<1> QED
  BY <1>2, <1>3, <1>4 DEF TabInv

LEMMA Screens ==
  ASSUME TypeInv, TabInv
  PROVE  /\ App = "shell" <=> account # None
         /\ App = "shell" => auth \in Known
         /\ App = "login" <=> auth \in Known /\ account = None
         /\ App = "failed" <=> auth = "failed"
         /\ \A screen : Shows(screen) => account # None /\ auth \in Known
BY DEF App, Shows, TabInv, UserInv, TypeInv, TypeOK

\* A session that is restored: one request, and nothing else is shown or on its way.
LEMMA Restoring ==
  ASSUME account' = None, auth' = "checking", inflight' = {Asks("me", None)}
  PROVE  TabInv'
<1>1. /\ Asks("me", None).kind = "me"
      /\ Asks("me", None).status = "sent"
      /\ Asks("me", None).mine
  BY AskedRequests DEF Kind, Arg
<1> QED
  BY <1>1 DEF TabInv, UserInv, OneSignIn, SpinnerInv, Fits, SignIn

LEMMA OpenInviteTab ==
  ASSUME TypeInv, TabInv, NEW i \in Invite, OpenInviteLink(i)
  PROVE  TabInv'
<1>0. UNCHANGED <<account, auth, shell, login, session, held>> /\ inflight \subseteq Requests
  BY DEF OpenInviteLink, server, teams, TypeInv
<1>1. CASE App = "shell"
  <2>0. account # None /\ auth \in Known /\ auth # "checking"
    BY <1>1, Screens
  <2>1. inflight' = ReplacesPreview(i)
    BY <1>1 DEF OpenInviteLink
  <2>2. /\ \A p \in inflight' :
             \/ p.kind = "preview" /\ p.status = "sent" /\ p.mine
             \/ \E q \in inflight : /\ p.kind = q.kind /\ p.mine \in {q.mine, FALSE}
                                    /\ p.arg = q.arg /\ p.status = q.status /\ p.got = q.got
        /\ \A q \in inflight : q.kind # "preview" =>
             \E p \in inflight' : p.kind = q.kind /\ p.mine = q.mine
    BY <1>0, <2>1, ReplacedRequests
  <2>3. ASSUME NEW p \in inflight'
        PROVE  Fits(p)' /\ ~SignIn(p)
    <3>1. CASE p.kind = "preview" /\ p.status = "sent" /\ p.mine
      BY <1>0, <2>0, <3>1 DEF Fits, SignIn
    <3>2. CASE \E q \in inflight : /\ p.kind = q.kind /\ p.mine \in {q.mine, FALSE}
                                   /\ p.arg = q.arg /\ p.status = q.status /\ p.got = q.got
      <4>1. PICK q \in inflight : /\ p.kind = q.kind /\ p.mine \in {q.mine, FALSE}
                                  /\ p.arg = q.arg /\ p.status = q.status /\ p.got = q.got
        BY <3>2
      <4>2. Fits(q)
        BY DEF TabInv
      <4> QED
        BY <1>0, <2>0, <4>1, <4>2 DEF Fits, SignIn, Held
    <3> QED
      BY <2>2, <3>1, <3>2
  <2>4. SpinnerInv'
    <3>1. CASE shell.loaded \/ shell.error
      BY <1>0, <2>0, <3>1 DEF SpinnerInv
    <3>2. CASE \E q \in inflight : q.mine /\ q.kind = "workspaces"
      <4>1. \E p \in inflight' : p.mine /\ p.kind = "workspaces"
        BY <2>2, <3>2
      <4> QED
        BY <1>0, <2>0, <4>1 DEF SpinnerInv
    <3> QED
      BY <2>0, <3>1, <3>2 DEF TabInv, SpinnerInv
  <2>5. UserInv'
    BY <1>0 DEF TabInv, UserInv, Held
  <2> QED
    BY <2>3, <2>4, <2>5 DEF TabInv, OneSignIn
<1>2. CASE App = "login"
  <2>1. account = None /\ auth \in Known
    BY <1>2, Screens
  <2>2. inflight' = inflight \cup PreviewOf(i)
    BY <1>2 DEF OpenInviteLink
  <2>3. \A p \in PreviewOf(i) : Fresh(p)
    BY <2>1, PreviewRequests DEF Fresh, SignIn
  <2> QED
    BY <1>0, <2>1, <2>2, <2>3, SendStep
<1>3. CASE App \notin {"shell", "login"}
  <2>1. inflight' = inflight
    BY <1>3 DEF OpenInviteLink
  <2> QED
    BY <1>0, <2>1, QuietStep DEF KeepsList
<1> QED
  BY <1>1, <1>2, <1>3

LEMMA PersonTab ==
  ASSUME TypeInv, TabInv, Person \/ takePendingApproval
  PROVE  TabInv'
<1> USE DEF server, teams, tab
<1>1. CASE \/ Reload
           \/ \E u \in User : OAuthSignIn(u)
  BY <1>1, Restoring DEF Reload, OAuthSignIn, Load
<1>2. ASSUME NEW u \in User, handleSubmit(u)
      PROVE  TabInv'
  <2> DEFINE a == Asks("login", u)
  <2>1. a.kind = "login" /\ a.status = "sent"
    BY AskedRequests DEF Kind, Arg
  <2>2. /\ inflight' = inflight \cup {a} /\ login'.busy
        /\ UNCHANGED <<account, auth, shell, session, held>>
    BY <1>2 DEF handleSubmit, Send, TypeInv, TypeOK, LoginStates
  <2>3. account = None /\ auth \in Known /\ ~login.busy
    BY <1>2, Screens DEF handleSubmit
  <2> HIDE DEF a
  <2>4. \A p \in inflight : ~SignIn(p)
    BY <2>3 DEF TabInv, Fits, SignIn
  <2>5. OneSignIn'
    BY <2>2, <2>4 DEF OneSignIn
  <2>6. \A p \in inflight : Fits(p)'
    BY <2>2, <2>3, <2>4 DEF TabInv, Fits, SignIn
  <2>7. Fits(a)'
    BY <2>1, <2>2, <2>3 DEF Fits
  <2>8. UserInv' /\ SpinnerInv'
    BY <2>2, <2>3 DEF UserInv, SpinnerInv
  <2> QED
    BY <2>2, <2>5, <2>6, <2>7, <2>8 DEF TabInv
<1>3. ASSUME KeepsList, inflight' = inflight, UNCHANGED <<account, auth, login, server>>
      PROVE  TabInv'
  BY <1>3, QuietStep
<1>4. CASE \/ \E r \in Request : OpenApprovalLink(r)
           \/ \E address \in {Home, Other} : GoTo(address)
  BY <1>3, <1>4 DEF OpenApprovalLink, GoTo, KeepsList
<1>5. ASSUME NEW i \in Invite, OpenInviteLink(i)
      PROVE  TabInv'
  BY <1>5, OpenInviteTab
<1>6. ASSUME NEW p, KeepsList, inflight' = inflight \cup {p}, p.status = "sent", ~SignIn(p),
             account # None, auth \in Known, KeepsAuth, UNCHANGED <<account, login, server>>
      PROVE  TabInv'
  <2> DEFINE new == {p}
  <2>1. (\A q \in new : Fresh(q)) /\ inflight' = inflight \cup new
    BY <1>6 DEF Fresh
  <2> HIDE DEF new
  <2> QED
    BY <1>6, <2>1, SendStep DEF KeepsList
<1>7. CASE Picks
  <2>1. /\ KeepsList /\ UNCHANGED <<account, auth, login, server>>
        /\ Shows("picker") \/ Shows("pages")
    BY <1>7, PicksRequest DEF KeepsList
  <2>2. PICK p : /\ inflight' = inflight \cup {p} /\ p.status = "sent"
                 /\ p.kind \in {"switch", "create", "accept", "decline", "join", "everywhere"}
    BY <1>7, PicksRequest
  <2>3. account # None /\ auth \in Known /\ ~SignIn(p)
    BY <2>1, <2>2, Screens DEF SignIn
  <2> QED
    BY <1>6, <2>1, <2>2, <2>3
<1>8. CASE \/ ChooseWorkspace \/ Back \/ dismissInvite
           \/ \E button \in Button : CloseBusy(button)
  <2>1. PICK new \in ShellStates, token \in Invite \cup {None} :
          /\ Choose(new, token)
          /\ new.loaded = shell.loaded /\ new.error = shell.error /\ new.list = shell.list
    <3>1. shell \in ShellStates /\ inviteToken \in Invite \cup {None}
      BY DEF TypeInv, TypeOK
    <3> DEFINE Opens(picks) == [shell EXCEPT !.choosing = picks]
    <3>0. \A picks \in BOOLEAN :
            /\ Opens(picks) \in ShellStates
            /\ Opens(picks).loaded = shell.loaded /\ Opens(picks).error = shell.error
            /\ Opens(picks).list = shell.list
      BY <3>1 DEF ShellStates
    <3>2. CASE ChooseWorkspace
      <4>1. Choose(Opens(TRUE), inviteToken)
        BY <3>2 DEF ChooseWorkspace
      <4> HIDE DEF Opens
      <4> QED
        BY <3>0, <3>1, <4>1
    <3>3. CASE Back
      <4>1. Choose(Opens(FALSE), inviteToken)
        BY <3>3 DEF Back
      <4> HIDE DEF Opens
      <4> QED
        BY <3>0, <3>1, <4>1
    <3>4. CASE dismissInvite
      BY <3>1, <3>4 DEF dismissInvite
    <3>5. CASE \E button \in Button : CloseBusy(button)
      BY <3>1, <3>5 DEF CloseBusy, ShellStates
    <3> QED
      BY <1>8, <3>2, <3>3, <3>4, <3>5
  <2>2. KeepsList
    BY <2>1, ChosenShell DEF KeepsList
  <2> QED
    BY <1>3, <2>1, <2>2 DEF Choose
<1>9. CASE TryAgain
  <2>1. auth = "failed"
    BY <1>9, Screens DEF TryAgain
  <2>2. inflight = {} /\ account = None
    BY <2>1 DEF TabInv, UserInv, Fits
  <2> QED
    BY <1>9, <2>2, Restoring DEF TryAgain
<1>10. CASE ReloadWorkspaces
  <2> DEFINE a == Asks("workspaces", None)
  <2>1. a.kind = "workspaces" /\ a.status = "sent" /\ a.mine
    BY AskedRequests DEF Kind, Arg
  <2>2. /\ inflight' = inflight \cup {a}
        /\ shell'.list = shell.list
        /\ UNCHANGED <<account, auth, login, server>>
    BY <1>10 DEF ReloadWorkspaces, Send, TypeInv, TypeOK, ShellStates
  <2>3. account # None /\ auth \in Known
    BY <1>10, Screens DEF ReloadWorkspaces
  <2> HIDE DEF a
  <2> DEFINE new == {a}
  <2>4. /\ \A q \in new : Fresh(q)
        /\ \E p \in new : p.mine /\ p.kind = "workspaces"
        /\ inflight' = inflight \cup new
    BY <2>1, <2>2, <2>3 DEF Fresh, SignIn
  <2> HIDE DEF new
  <2> QED
    BY <2>2, <2>4, SendStep
<1>11. CASE handleSignOut
  <2> DEFINE a == Asks("logout", None)
  <2>1. a.kind = "logout" /\ a.status = "sent"
    BY AskedRequests DEF Kind, Arg
  <2>3. account # None /\ auth \in Known
    BY <1>11, Screens DEF handleSignOut
  <2>2. /\ inflight' = inflight \cup {a} /\ KeepsList /\ KeepsAuth
        /\ UNCHANGED <<account, login, server>>
    BY <1>11, <2>3 DEF handleSignOut, KeepsList
  <2> HIDE DEF a
  <2> QED
    BY <1>6, <2>1, <2>2, <2>3 DEF SignIn
<1>12. CASE takePendingApproval
  <2>1. storedApproval \in Request /\ shell.active \in Workspace \cup {None}
    BY <1>12 DEF takePendingApproval, TypeInv, TypeOK, ShellStates
  <2>2. PICK w \in Workspace \cup {None} :
          inflight' = inflight \cup {[Asks("request", storedApproval) EXCEPT !.seen = w]}
    BY <1>12, <2>1 DEF takePendingApproval
  <2> DEFINE a == [Asks("request", storedApproval) EXCEPT !.seen = w]
  <2>3. a.kind = "request" /\ a.status = "sent"
    BY <2>1, SentRequests
  <2>4. inflight' = inflight \cup {a} /\ KeepsList /\ UNCHANGED <<account, auth, login, server>>
    BY <1>12, <2>2 DEF takePendingApproval, KeepsList
  <2>5. account # None /\ auth \in Known
    BY <1>12, Screens DEF takePendingApproval
  <2> HIDE DEF a
  <2> QED
    BY <1>6, <2>3, <2>4, <2>5 DEF SignIn
<1> QED
  BY <1>1, <1>2, <1>4, <1>5, <1>7, <1>8, <1>9, <1>10, <1>11, <1>12 DEF Person, Picks

\* One request is answered: as long as the answer is about whom it should be.
LEMMA AnswerStep ==
  ASSUME TypeInv, TabInv, UNCHANGED tab, held \subseteq held',
         session'.user \in {session.user, None},
         NEW q \in inflight, NEW p, p.kind = q.kind, p.mine = q.mine,
         \/ p.status # "ok" \/ p.kind \notin {"me", "login", "workspaces"}
         \/ SignIn(p) /\ session'.user \in {p.arg, None}
         \/ p.kind = "workspaces" /\ (account # None => p.got.list \subseteq Held(account)),
         \/ inflight' = (inflight \ {q}) \cup {p}
         \/ /\ (inflight \ {q}) \cup {p} \subseteq Requests
            /\ inflight' = Unauthorized((inflight \ {q}) \cup {p})
  PROVE  TabInv'
<1> DEFINE S == (inflight \ {q}) \cup {p}
<1>1. \A x, y \in S : SignIn(x) /\ SignIn(y) => x = y
  BY DEF TabInv, OneSignIn, SignIn
<1>2. \A x \in inflight : \E y \in S : y.kind = x.kind /\ y.mine = x.mine
  OBVIOUS
<1>3. \A x \in S : \E y \in inflight :
        /\ x.kind = y.kind /\ x.mine = y.mine
        /\ \/ x.arg = y.arg /\ x.status = y.status /\ x.got = y.got
           \/ x.status # "ok" \/ x.kind \notin {"me", "login", "workspaces"}
           \/ SignIn(x) /\ session'.user \in {x.arg, None}
           \/ x.kind = "workspaces" /\ (account # None => x.got.list \subseteq Held(account))
  OBVIOUS
<1>4. (S \subseteq Requests /\ inflight' = Unauthorized(S)) \/ inflight' = S
  OBVIOUS
<1> HIDE DEF S
<1>5. CASE inflight' = S
  <2>1. OneSignIn'
    BY <1>1, <1>5 DEF OneSignIn
  <2> QED
    BY <1>2, <1>3, <1>5, <2>1, ServerStep
<1>6. CASE S \subseteq Requests /\ inflight' = Unauthorized(S)
  <2> DEFINE Expired(x) == IF x.status = "sent" THEN [x EXCEPT !.valid = FALSE] ELSE x
  <2>1. /\ \A x \in inflight' : \E y \in S :
             /\ x = Expired(y)
             /\ x.kind = y.kind /\ x.mine = y.mine /\ x.arg = y.arg
             /\ x.status = y.status /\ x.got = y.got
        /\ \A y \in S : \E x \in inflight' : x.kind = y.kind /\ x.mine = y.mine
    BY <1>6, ExpiredRequests
  <2> HIDE DEF Expired
  <2>2. OneSignIn'
    BY <1>1, <2>1 DEF OneSignIn, SignIn
  <2>3. ASSUME NEW x \in inflight'
        PROVE  \E y \in inflight :
                 /\ x.kind = y.kind /\ x.mine = y.mine
                 /\ \/ x.arg = y.arg /\ x.status = y.status /\ x.got = y.got
                    \/ x.status # "ok" \/ x.kind \notin {"me", "login", "workspaces"}
                    \/ SignIn(x) /\ session'.user \in {x.arg, None}
                    \/ /\ x.kind = "workspaces"
                       /\ account # None => x.got.list \subseteq Held(account)
    <3>1. PICK z \in S : /\ x.kind = z.kind /\ x.mine = z.mine /\ x.arg = z.arg
                         /\ x.status = z.status /\ x.got = z.got
      BY <2>1
    <3> QED
      BY <1>3, <3>1 DEF SignIn
  <2>4. \A x \in inflight : \E y \in inflight' : y.kind = x.kind /\ y.mine = x.mine
    BY <1>2, <2>1
  <2> QED
    BY <2>2, <2>3, <2>4, ServerStep
<1> QED
  BY <1>4, <1>5, <1>6

LEMMA ServerTab ==
  ASSUME TypeInv, TabInv, \/ Revoke
                          \/ \E u \in User, w \in Workspace : RemoveMember(u, w)
                          \/ \E q \in inflight : Handle(q)
  PROVE  TabInv'
<1>0. inflight \subseteq Requests /\ NoAnswer \in Answers /\ NoSession.user = None
  BY DEF TypeInv, NoAnswer, Answers, NoSession
<1> USE DEF server, teams, tab
<1>1. CASE Revoke
  <2> DEFINE Expired(x) == IF x.status = "sent" THEN [x EXCEPT !.valid = FALSE] ELSE x
  <2>1. /\ \A x \in inflight' : \E y \in inflight :
             /\ x = Expired(y)
             /\ x.kind = y.kind /\ x.mine = y.mine /\ x.arg = y.arg
             /\ x.status = y.status /\ x.got = y.got
        /\ \A y \in inflight : \E x \in inflight' : x.kind = y.kind /\ x.mine = y.mine
    BY <1>0, <1>1, ExpiredRequests DEF Revoke
  <2> HIDE DEF Expired
  <2>2. OneSignIn'
    BY <2>1 DEF TabInv, OneSignIn, SignIn
  <2>3. held \subseteq held' /\ session'.user \in {session.user, None} /\ UNCHANGED tab
    BY <1>0, <1>1 DEF Revoke
  <2> QED
    BY <2>1, <2>2, <2>3, ServerStep
<1>7. ASSUME NEW u \in User, NEW w \in Workspace, RemoveMember(u, w)
      PROVE  TabInv'
  BY <1>7, QuietStep DEF RemoveMember, KeepsList
<1>2. ASSUME NEW q \in inflight, NEW status \in {"ok", "unauthorized", "failed"},
             NEW got \in Answers, q.kind = "me" => status # "ok"
      PROVE  \E p : /\ Answered(q, status, got) = (inflight \ {q}) \cup {p}
                    /\ (inflight \ {q}) \cup {p} \subseteq Requests
                    /\ p.kind = q.kind /\ p.mine = q.mine /\ p.arg = q.arg
                    /\ p.status = status /\ p.got = got
  <2>1. PICK p : /\ Answered(q, status, got) = (inflight \ {q}) \cup {p}
                 /\ p.kind = q.kind /\ p.mine = q.mine /\ p.arg = q.arg
                 /\ p.status = status /\ p.got = got
    BY <1>0, <1>2, AnsweredRequests
  <2>2. Answered(q, status, got) \subseteq Requests
    BY <1>0, <1>2, AnsweredRequests
  <2> QED
    BY <2>1, <2>2
<1>3. ASSUME NEW q \in inflight, Refuse(q)
      PROVE  TabInv'
  <2>1. PICK status \in {"unauthorized", "failed"}, got \in Answers :
          inflight' = Answered(q, status, got)
    <3>1. CASE \E got \in OnlyInvitations(q) : inflight' = Answered(q, "failed", got)
      <4>1. List \in Answers
        BY <3>1, ListTypes DEF OnlyInvitations, Accepted, Public
      <4>2. [NoAnswer EXCEPT !.invitations = List.invitations] \in Answers
        BY <4>1 DEF NoAnswer, Answers
      <4> QED
        BY <3>1, <4>2 DEF OnlyInvitations
    <3>2. CASE ~\E got \in OnlyInvitations(q) : inflight' = Answered(q, "failed", got)
      BY <1>0, <1>3, <3>2 DEF Refuse
    <3> QED
      BY <3>1, <3>2
  <2>2. PICK p : /\ inflight' = (inflight \ {q}) \cup {p}
                 /\ p.kind = q.kind /\ p.mine = q.mine /\ p.status = status
    BY <1>0, <1>2, <2>1
  <2> QED
    BY <1>3, <2>1, <2>2, AnswerStep DEF Refuse
<1>4. ASSUME NEW q \in inflight, Read(q)
      PROVE  TabInv'
  <2>1. CASE q.kind \in {"workspaces", "invitations"}
    <3>1. session # NoSession
      BY <1>4, <2>1 DEF Read, Accepted, Public
    <3>2. List \in Answers /\ List.list = Memberships(session.user) /\ session.user \in User
      BY <3>1, ListTypes
    <3>3. account # None => session.user = account
      BY <3>2, SessionAssumption DEF TabInv, UserInv
    <3>6. LET got == [List EXCEPT !.invitations = {}]
          IN  got \in Answers /\ got.list = List.list
      BY <3>2 DEF Answers
    <3>7. PICK got \in Answers : inflight' = Answered(q, "ok", got) /\ got.list = List.list
      BY <1>4, <2>1, <3>2, <3>6 DEF Read
    <3>4. PICK p : /\ inflight' = (inflight \ {q}) \cup {p}
                   /\ p.kind = q.kind /\ p.mine = q.mine /\ p.got = got
      BY <1>2, <2>1, <3>7
    <3>5. account # None => p.got.list \subseteq Held(account)
      BY <3>2, <3>3, <3>4, <3>7 DEF TypeInv, TypeOK, Memberships, Held
    <3> QED
      BY <1>4, <2>1, <3>4, <3>5, AnswerStep DEF Read
  <2>2. CASE q.kind = "me"
    <3> DEFINE p == [q EXCEPT !.status = "ok", !.arg = session.user]
    <3>1. inflight' = (inflight \ {q}) \cup {p}
      BY <1>4, <2>2 DEF Read
    <3>2. p.kind = q.kind /\ p.mine = q.mine /\ p.arg = session.user
      BY <1>0 DEF Requests, Inflight
    <3> HIDE DEF p
    <3> QED
      BY <1>4, <2>2, <3>1, <3>2, AnswerStep DEF Read, SignIn
  <2>3. CASE q.kind = "request"
    <3>1. PICK p : /\ inflight' = (inflight \ {q}) \cup {p}
                   /\ p.kind = q.kind /\ p.mine = q.mine
      BY <1>0, <1>2, <1>4, <2>3 DEF Read
    <3> QED
      BY <1>4, <2>3, <3>1, AnswerStep DEF Read
  <2> QED
    BY <1>4, <2>1, <2>2, <2>3 DEF Read
<1>5. ASSUME NEW q \in inflight, ChangeSession(q)
      PROVE  TabInv'
  <2>1. PICK status \in {"ok", "failed"} :
          inflight' = Unauthorized(Answered(q, status, NoAnswer))
    BY <1>5 DEF ChangeSession
  <2>2. q.kind \in {"login", "logout", "everywhere"}
    BY <1>5 DEF ChangeSession
  <2>3. PICK p : /\ Answered(q, status, NoAnswer) = (inflight \ {q}) \cup {p}
                 /\ (inflight \ {q}) \cup {p} \subseteq Requests
                 /\ p.kind = q.kind /\ p.mine = q.mine /\ p.arg = q.arg
    BY <1>0, <1>2, <2>2
  <2>4. inflight' = Unauthorized((inflight \ {q}) \cup {p})
    BY <2>1, <2>3
  <2>5. CASE q.kind \in {"logout", "everywhere"}
    <3>1. session'.user = None /\ UNCHANGED <<tab, held>>
      BY <1>0, <1>5, <2>5 DEF ChangeSession
    <3> QED
      BY <2>3, <2>4, <2>5, <3>1, AnswerStep
  <2>6. CASE q.kind = "login"
    <3>1. session'.user = q.arg /\ UNCHANGED <<tab, held>>
      BY <1>5, <2>6 DEF ChangeSession
    <3>2. account = None /\ auth \in Known /\ login.busy /\ SignIn(q) /\ SignIn(p)
      BY <2>3, <2>6 DEF TabInv, Fits, SignIn
    <3> DEFINE S == (inflight \ {q}) \cup {p}
               Expired(x) == IF x.status = "sent" THEN [x EXCEPT !.valid = FALSE] ELSE x
    <3>3. /\ \A x \in inflight \ {q} : ~SignIn(x)
          /\ \A x \in S : x = p \/ x \in inflight \ {q}
      BY <3>2 DEF TabInv, OneSignIn
    <3>4. \A x \in inflight' : \E y \in S :
            /\ x = Expired(y)
            /\ x.kind = y.kind /\ x.mine = y.mine /\ x.arg = y.arg
            /\ x.status = y.status /\ x.got = y.got
      BY <2>3, <2>4, ExpiredRequests
    <3> HIDE DEF S, Expired
    <3>5. OneSignIn'
      BY <3>3, <3>4 DEF OneSignIn, SignIn
    <3>6. ASSUME NEW x \in inflight'
          PROVE  Fits(x)'
      <4>1. PICK y \in S : /\ x.kind = y.kind /\ x.mine = y.mine /\ x.arg = y.arg
                           /\ x.status = y.status /\ x.got = y.got
        BY <3>4
      <4>2. CASE y = p
        BY <2>3, <2>6, <3>1, <3>2, <4>1, <4>2 DEF Fits
      <4>3. CASE y \in inflight \ {q}
        BY <3>1, <3>2, <3>3, <4>1, <4>3 DEF TabInv, Fits, SignIn
      <4> QED
        BY <3>3, <4>2, <4>3
    <3>7. UserInv' /\ SpinnerInv'
      BY <3>1, <3>2 DEF UserInv, SpinnerInv
    <3> QED
      BY <3>5, <3>6, <3>7 DEF TabInv
  <2> QED
    BY <2>2, <2>5, <2>6
<1>6. ASSUME NEW q \in inflight, Join(q) \/ Decline(q)
      PROVE  TabInv'
  <2>1. q.kind \in {"switch", "create", "join", "accept", "decline"}
    BY <1>6 DEF Join, Decline
  <2>2. PICK status \in {"ok", "failed"} : inflight' = Answered(q, status, NoAnswer)
    BY <1>6 DEF Join, Decline
  <2>3. PICK p : /\ inflight' = (inflight \ {q}) \cup {p}
                 /\ p.kind = q.kind /\ p.mine = q.mine
    BY <1>0, <1>2, <2>1, <2>2
  <2>4. held \subseteq held' /\ session'.user = session.user /\ UNCHANGED tab
    BY <1>6 DEF Join, Decline, Enters, TypeInv, TypeOK
  <2> QED
    BY <2>1, <2>3, <2>4, AnswerStep
<1> QED
  BY <1>1, <1>3, <1>4, <1>5, <1>6, <1>7 DEF Handle

\* A shell or a sign-in page that has just mounted, with no sign-in left in flight.
LEMMA MountedTab ==
  ASSUME NEW S, NEW kinds, Mounted(S, kinds), \A q \in S : ~SignIn(q),
         auth' \in Known,
         \/ account' = None /\ kinds = {"preview"}
         \/ /\ account' # None /\ kinds = {"workspaces", "preview"}
            /\ \E p \in inflight' : p.mine /\ p.kind = "workspaces"
            /\ session'.user \in {account', None}
  PROVE  TabInv'
<1>1. UserInv'
  BY DEF Mounted, ShellInit, UserInv
<1>2. ASSUME NEW p \in inflight'
      PROVE  Fits(p)' /\ ~SignIn(p)
  BY DEF Mounted, Fits, SignIn
<1>3. SpinnerInv'
  BY DEF SpinnerInv
<1> QED
  BY <1>1, <1>2, <1>3 DEF TabInv, OneSignIn

LEMMA EndSessionTab ==
  ASSUME TypeInv, TabInv, NEW q \in inflight, ~SignIn(q), endSession(Others(q)),
         KeepsAuth, UNCHANGED server
  PROVE  TabInv'
<1>1. CASE App = "shell"
  <2>1. account # None /\ auth \in Known
    BY <1>1, Screens
  <2>2. \A p \in Others(q) : ~SignIn(p)
    BY <2>1 DEF TabInv, Fits, SignIn, Others
  <2>3. Others(q) \in SUBSET Requests /\ MountLogin(Others(q)) /\ account' = None
    BY <1>1 DEF endSession, Others, TypeInv
  <2>4. Mounted(Others(q), {"preview"})
    BY <2>3, MountedLogin
  <2> QED
    BY <2>1, <2>2, <2>3, <2>4, MountedTab
<1>2. CASE App # "shell"
  <2> DEFINE gone == {q}
             new == {}
  <2>1. account = None
    BY <1>2, Screens
  <2>2. /\ \A p \in gone : ~SignIn(p)
        /\ \A p \in new : Fresh(p)
        /\ inflight' = (inflight \ gone) \cup new
        /\ UNCHANGED <<account, session, held, login>>
    BY <1>2, <2>1 DEF endSession, Others, server, teams
  <2> HIDE DEF gone, new
  <2> QED
    BY <2>1, <2>2, OrdinaryStep
<1> QED
  BY <1>1, <1>2

LEMMA GoesOnTab ==
  ASSUME TypeInv, TabInv, NEW q \in inflight, ~SignIn(q), GoesOn(q), UNCHANGED server,
         login'.busy = login.busy,
         account # None => shell'.list \subseteq Held(account),
         \/ q.mine /\ (shell'.loaded \/ shell'.error)
         \/ KeepsList /\ (q.mine => q.kind # "workspaces")
  PROVE  TabInv'
<1> DEFINE gone == {q}
<1>1. auth \in Known /\ (account = None /\ q.mine => q.kind = "preview")
  BY DEF TabInv, Fits, SignIn, TypeInv, TypeOK
<1>2. PICK new \in SUBSET Requests :
        /\ inflight' = Others(q) \cup new
        /\ \A p \in new : /\ p.kind \in {"workspaces", "invitations", "switch"}
                          /\ p.status = "sent" /\ p.mine = q.mine /\ q.kind # "preview"
  BY DEF GoesOn
<1>3. /\ inflight' = (inflight \ gone) \cup new
      /\ \A p \in gone : ~SignIn(p) /\ p = q
  BY <1>2 DEF Others
<1>4. \A p \in new : Fresh(p)
  BY <1>1, <1>2 DEF Fresh, SignIn
<1>5. KeepsAuth /\ UNCHANGED <<account, session, held>>
  BY DEF GoesOn, server, teams
<1> HIDE DEF gone
<1> QED
  BY <1>3, <1>4, <1>5, OrdinaryStep DEF KeepsList

LEMMA DeliverTab ==
  ASSUME TypeInv, TabInv, NEW q \in inflight, Deliver(q)
  PROVE  TabInv'
<1>0. /\ Fits(q) /\ UNCHANGED server
      /\ account # None => shell.list \subseteq Held(account)
      /\ Others(q) \in SUBSET Requests
  BY DEF Deliver, TabInv, UserInv, TypeInv, Others
<1>1. SignIn(q) => \A p \in Others(q) : ~SignIn(p)
  BY DEF TabInv, OneSignIn, Others
<1>2. CASE restored(q)
  <2>1. SignIn(q) /\ auth = "checking" /\ account = None
    BY <1>0, <1>2 DEF restored, Fits, SignIn, TabInv, UserInv
  <2>2. Others(q) = {}
    BY <1>1, <2>1 DEF TabInv, Fits, SignIn, Others
  <2>3. CASE q.status = "ok"
    <3>1. /\ account' = q.arg /\ auth' = "known" /\ MountShell(Others(q))
          /\ session'.user \in {account', None} /\ account' # None
      BY <1>0, <1>2, <2>1, <2>3, SessionAssumption
         DEF restored, Fits, server, teams, TypeInv, Requests, Names
    <3>2. /\ Mounted(Others(q), {"workspaces", "preview"})
          /\ \E p \in inflight' : p.mine /\ p.kind = "workspaces"
      BY <1>0, <3>1, MountedShell
    <3> QED
      BY <1>1, <2>1, <3>1, <3>2, MountedTab
  <2>4. CASE q.status = "unauthorized"
    <3>1. account' = None /\ auth' = "known" /\ MountLogin(Others(q))
      BY <1>2, <2>4 DEF restored
    <3>2. Mounted(Others(q), {"preview"})
      BY <1>0, <3>1, MountedLogin
    <3> QED
      BY <1>1, <2>1, <3>1, <3>2, MountedTab
  <2>5. CASE q.status \notin {"ok", "unauthorized"}
    <3>1. auth' = "failed" /\ inflight' = {} /\ account' = None
      BY <1>2, <2>1, <2>2, <2>5 DEF restored
    <3> QED
      BY <3>1 DEF TabInv, UserInv, OneSignIn, SpinnerInv
  <2> QED
    BY <2>3, <2>4, <2>5
<1>3. CASE signIn(q)
  <2>1. SignIn(q) /\ auth \in Known /\ account = None
    BY <1>0, <1>3 DEF signIn, Fits, SignIn
  <2>2. CASE q.status = "ok"
    <3>1. /\ account' = q.arg /\ auth' \in Known /\ MountShell(Others(q))
          /\ session'.user \in {account', None} /\ account' # None
      BY <1>0, <1>3, <2>1, <2>2, SessionAssumption
         DEF signIn, Fits, server, teams, TypeInv, Requests, Names
    <3>2. /\ Mounted(Others(q), {"workspaces", "preview"})
          /\ \E p \in inflight' : p.mine /\ p.kind = "workspaces"
      BY <1>0, <3>1, MountedShell
    <3> QED
      BY <1>1, <2>1, <3>1, <3>2, MountedTab
  <2>3. CASE q.status # "ok"
    <3>1. inflight' = Others(q) /\ account' = None /\ auth' \in Known /\ session' = session
      BY <1>0, <1>3, <2>1, <2>3 DEF signIn, server, teams
    <3>2. \A p \in Others(q) : Fits(p) /\ ~SignIn(p)
      BY <1>1, <2>1 DEF TabInv, Others
    <3>3. \A p \in inflight' : Fits(p)'
      BY <2>1, <3>1, <3>2 DEF Fits, SignIn
    <3> QED
      BY <3>1, <3>2, <3>3 DEF TabInv, UserInv, OneSignIn, SpinnerInv
  <2> QED
    BY <2>2, <2>3
<1>4. CASE signOut(q)
  <2>1. q.kind \in {"logout", "everywhere"} /\ ~SignIn(q) /\ KeepsAuth
    BY <1>0, <1>4 DEF signOut, SignIn, Fits, TypeInv, TypeOK
  <2>2. CASE q.status = "ok"
    BY <1>0, <1>4, <2>1, <2>2, EndSessionTab DEF signOut
  <2>3. CASE q.status # "ok"
    <3> DEFINE gone == {q}
               new == {}
    <3>1. /\ \A p \in gone : ~SignIn(p) /\ p.kind # "workspaces"
          /\ \A p \in new : Fresh(p)
          /\ inflight' = (inflight \ gone) \cup new
          /\ UNCHANGED <<account, session, held, login, shell>>
      BY <1>0, <1>4, <2>1, <2>3 DEF signOut, Others, server, teams
    <3> HIDE DEF gone, new
    <3> QED
      BY <1>0, <2>1, <3>1, OrdinaryStep
  <2> QED
    BY <2>2, <2>3
<1>5. CASE reload(q)
  <2>1. q.kind = "workspaces" /\ ~SignIn(q) /\ auth' = auth
    BY <1>5 DEF reload, SignIn
  <2>2. CASE q.status = "unauthorized"
    BY <1>0, <1>5, <2>1, <2>2, EndSessionTab DEF reload
  <2>3. CASE q.status # "unauthorized"
    <3>1. /\ GoesOn(q)
          /\ login' = login
          /\ q.mine => shell'.loaded \/ shell'.error
          /\ ~q.mine => KeepsList
          /\ shell'.list = shell.list \/ (q.mine /\ q.status = "ok" /\ shell'.list = q.got.list)
      BY <1>0, <1>5, <2>3, ReloadDelivery
    <3>2. account # None => shell'.list \subseteq Held(account)
      BY <1>0, <2>1, <3>1 DEF Fits
    <3> QED
      BY <1>0, <2>1, <3>1, <3>2, GoesOnTab
  <2> QED
    BY <2>2, <2>3
<1>6. CASE \/ previewed(q) \/ reloadInvitations(q) \/ switchTo(q) \/ openLink(q)
           \/ created(q) \/ acceptedInvitation(q) \/ declinedInvitation(q) \/ handleJoined(q)
  <2>1. /\ GoesOn(q) /\ KeepsList /\ login'.busy = login.busy
        /\ ~SignIn(q) /\ q.kind # "workspaces"
    BY <1>0, <1>6, OrdinaryDelivery DEF SignIn
  <2> QED
    BY <1>0, <2>1, GoesOnTab DEF KeepsList
<1> QED
  BY <1>2, <1>3, <1>4, <1>5, <1>6 DEF Deliver

LEMMA NextTab ==
  ASSUME TypeInv, TabInv, [Next]_vars
  PROVE  TabInv'
<1>1. CASE UNCHANGED vars
  BY <1>1, QuietStep DEF vars, tab, server, teams, KeepsList
<1>2. CASE Next
  BY <1>2, PersonTab, ServerTab, DeliverTab DEF Next
<1> QED
  BY <1>1, <1>2
------------------------------------------------------------------------------
(* Where a session starts.                                                  *)

\* The link that waits, and the address of a signed-out tab, were there at a page load since
\* the last sign-in or opened since then by a signed-out tab; without either, it is Home.
AddressInv ==
  /\ storedApproval \in {None} \cup asked
  /\ account = None => hash \in {Home} \cup asked

LEMMA NextAddress ==
  ASSUME TypeInv, TabInv, AddressInv, [Next]_vars
  PROVE  AddressInv'
<1> USE DEF AddressInv, server, teams, bounds, tab
<1>1. CASE \/ Reload
           \/ \E u \in User : OAuthSignIn(u)
  BY <1>1 DEF Reload, OAuthSignIn, Load, Captured
<1>2. CASE \E u \in User : handleSubmit(u)
  BY <1>2 DEF handleSubmit, Send
<1>3. ASSUME NEW r \in Request, OpenApprovalLink(r)
      PROVE  AddressInv'
  BY <1>3 DEF OpenApprovalLink
<1>4. ASSUME NEW i \in Invite, OpenInviteLink(i)
      PROVE  AddressInv'
  BY <1>4 DEF OpenInviteLink
<1>5. CASE Picks
  BY <1>5, PicksRequest
<1>6. ASSUME NEW address \in {Home, Other}, GoTo(address)
      PROVE  AddressInv'
  BY <1>6, Screens DEF GoTo
<1>7. CASE \/ ChooseWorkspace \/ Back \/ dismissInvite
           \/ \E button \in Button : CloseBusy(button)
  BY <1>7 DEF ChooseWorkspace, Back, dismissInvite, CloseBusy, Choose
<1>8. CASE TryAgain \/ ReloadWorkspaces \/ handleSignOut
  BY <1>8 DEF TryAgain, ReloadWorkspaces, handleSignOut, Send
<1>9. CASE takePendingApproval
  BY <1>9, Screens DEF takePendingApproval
<1>10. CASE \/ Revoke \/ \E q \in inflight : Handle(q)
            \/ \E u \in User, w \in Workspace : RemoveMember(u, w)
  <2>1. UNCHANGED <<tab, asked>>
    BY <1>10 DEF Revoke, RemoveMember, Handle, Refuse, Read, ChangeSession, Join, Decline
  <2> QED
    BY <2>1
<1>11. ASSUME NEW q \in inflight, Deliver(q)
       PROVE  AddressInv'
  <2>0. /\ Fits(q)
        /\ asked' = IF account = None /\ account' # None THEN asked \cap {storedApproval} ELSE asked
    BY <1>11 DEF Deliver, TabInv
  <2>1. CASE restored(q) \/ signIn(q)
    <3>1. account = None
      BY <2>0, <2>1 DEF Fits, TabInv, UserInv, restored, signIn
    <3> QED
      BY <2>0, <2>1, <3>1 DEF restored, signIn
  <2>2. CASE endSession(Others(q)) /\ storedApproval' = storedApproval
    BY <2>0, <2>2 DEF endSession
  <2>3. CASE signOut(q)
    BY <2>0, <2>2, <2>3 DEF signOut
  <2>4. CASE GoesOn(q) /\ ~SignIn(q)
    <3>1. account = None /\ q.mine => q.kind = "preview"
      BY <2>0, <2>4 DEF Fits, SignIn
    <3>2. /\ storedApproval' = storedApproval /\ account' = account
          /\ hash' \in {hash, Home} \/ (q.mine /\ q.kind # "preview")
      BY <2>4 DEF GoesOn
    <3> QED
      BY <2>0, <3>1, <3>2
  <2>5. CASE reload(q)
    <3>1. CASE q.status = "unauthorized"
      BY <2>2, <2>5, <3>1 DEF reload
    <3>2. CASE q.status # "unauthorized"
      BY <2>0, <2>4, <2>5, <3>2, ReloadDelivery DEF reload, SignIn
    <3> QED
      BY <3>1, <3>2
  <2>6. CASE \/ previewed(q) \/ reloadInvitations(q) \/ switchTo(q) \/ openLink(q)
             \/ created(q) \/ acceptedInvitation(q) \/ declinedInvitation(q) \/ handleJoined(q)
    BY <2>0, <2>4, <2>6, OrdinaryDelivery DEF SignIn
  <2> QED
    BY <1>11, <2>1, <2>3, <2>5, <2>6 DEF Deliver
<1>12. CASE UNCHANGED vars
  BY <1>12 DEF vars
<1> QED
  BY <1>1, <1>2, <1>3, <1>4, <1>5, <1>6, <1>7, <1>8, <1>9, <1>10, <1>11, <1>12
     DEF Next, Person, Picks
------------------------------------------------------------------------------
(* The steps of the tab that the action properties are about.               *)

\* A session starts where a sign-in is answered: the address and the link that waits
\* are those of the signed-out tab.
LEMMA StartStep ==
  ASSUME TypeInv, TabInv, AddressInv, [Next]_vars, account = None, account' # None
  PROVE  hash' \in {Home} \cup asked /\ storedApproval' \in {None} \cup asked
<1>1. ASSUME UNCHANGED <<hash, storedApproval>>
      PROVE  hash' \in {Home} \cup asked /\ storedApproval' \in {None} \cup asked
  BY <1>1 DEF AddressInv
<1>2. ASSUME UNCHANGED account
      PROVE  FALSE
  BY <1>2
<1>3. CASE Person
  <2>1. CASE Reload \/ \E u \in User : OAuthSignIn(u)
    BY <2>1 DEF Reload, OAuthSignIn, Load
  <2>2. CASE \/ \E u \in User : handleSubmit(u)
             \/ \E r \in Request : OpenApprovalLink(r)
             \/ \E i \in Invite : OpenInviteLink(i)
             \/ \E address \in {Home, Other} : GoTo(address)
    BY <1>2, <2>2 DEF handleSubmit, Send, OpenApprovalLink, OpenInviteLink, GoTo
  <2>3. CASE Picks
    BY <1>2, <2>3, PicksRequest
  <2>4. CASE \/ \E button \in Button : CloseBusy(button)
             \/ ChooseWorkspace \/ Back \/ dismissInvite
    BY <1>2, <2>4 DEF CloseBusy, ChooseWorkspace, Back, dismissInvite, Choose
  <2>5. CASE TryAgain \/ ReloadWorkspaces \/ handleSignOut
    BY <1>2, <2>5 DEF TryAgain, ReloadWorkspaces, handleSignOut, Send, tab
  <2> QED
    BY <1>3, <2>1, <2>2, <2>3, <2>4, <2>5 DEF Person, Picks
<1>4. CASE \/ takePendingApproval \/ Revoke \/ UNCHANGED vars
           \/ \E u \in User, w \in Workspace : RemoveMember(u, w)
  BY <1>2, <1>4 DEF takePendingApproval, Revoke, RemoveMember, vars, tab
<1>5. CASE \E q \in inflight : Handle(q)
  BY <1>2, <1>5 DEF Handle, Refuse, Read, ChangeSession, Join, Decline, tab
<1>6. ASSUME NEW q \in inflight, Deliver(q)
      PROVE  hash' \in {Home} \cup asked /\ storedApproval' \in {None} \cup asked
  <2>1. CASE restored(q) \/ signIn(q)
    BY <1>1, <2>1 DEF restored, signIn
  <2>2. CASE signOut(q)
    BY <1>2, <2>2 DEF signOut, endSession
  <2>3. CASE reload(q)
    BY <1>2, <2>3 DEF reload, endSession
  <2>4. CASE \/ previewed(q) \/ reloadInvitations(q) \/ switchTo(q) \/ openLink(q)
             \/ created(q) \/ acceptedInvitation(q) \/ declinedInvitation(q) \/ handleJoined(q)
    BY <1>2, <2>4 DEF previewed, reloadInvitations, switchTo, openLink, created,
                      acceptedInvitation, declinedInvitation, handleJoined, tab
  <2> QED
    BY <1>6, <2>1, <2>2, <2>3, <2>4 DEF Deliver
<1> QED
  BY <1>3, <1>4, <1>5, <1>6 DEF Next

\* Only two answers bring a tab to a request: the switch made for its link, which has
\* moved the shell to its workspace, and the request itself, when the workspace seen by
\* the effect was its own.
LEMMA LinkStep ==
  ASSUME TypeInv, [Next]_vars, NEW r \in Request,
         hash # r, hash' = r, account' # None, inflight' # inflight
  PROVE  \/ shell'.active = RequestWorkspace[r]
         \/ \E q \in inflight : q.kind = "request" /\ q.arg = r /\ q.seen # shell.active
<1>0. r # Home /\ r # Other /\ r # None
  BY AddressAssumption, SessionAssumption
<1>1. ASSUME hash' \in {hash, Home}
      PROVE  FALSE
  BY <1>0, <1>1
<1>2. CASE Person
  <2>1. CASE Reload \/ \E u \in User : OAuthSignIn(u)
    BY <2>1 DEF Reload, OAuthSignIn, Load
  <2>2. CASE \/ \E s \in Request : OpenApprovalLink(s)
             \/ \E address \in {Home, Other} : GoTo(address)
             \/ \E button \in Button : CloseBusy(button)
             \/ ChooseWorkspace \/ Back \/ dismissInvite
    BY <2>2 DEF OpenApprovalLink, GoTo, CloseBusy, ChooseWorkspace, Back, dismissInvite, Choose
  <2>3. CASE \/ \E i \in Invite : OpenInviteLink(i)
             \/ \E u \in User : handleSubmit(u)
    BY <1>1, <2>3 DEF OpenInviteLink, handleSubmit, Send
  <2>4. CASE Picks
    BY <1>1, <2>4, PicksRequest
  <2>5. CASE TryAgain \/ ReloadWorkspaces \/ handleSignOut
    BY <1>1, <2>5 DEF TryAgain, ReloadWorkspaces, handleSignOut, Send, tab
  <2> QED
    BY <1>2, <2>1, <2>2, <2>3, <2>4, <2>5 DEF Person, Picks
<1>3. CASE \/ takePendingApproval \/ Revoke \/ UNCHANGED vars
           \/ \E u \in User, w \in Workspace : RemoveMember(u, w)
  BY <1>1, <1>3 DEF takePendingApproval, Revoke, RemoveMember, vars, tab
<1>4. CASE \E q \in inflight : Handle(q)
  BY <1>1, <1>4 DEF Handle, Refuse, Read, ChangeSession, Join, Decline, tab
<1>5. ASSUME NEW q \in inflight, Deliver(q)
      PROVE  \/ shell'.active = RequestWorkspace[r]
             \/ \E p \in inflight : p.kind = "request" /\ p.arg = r /\ p.seen # shell.active
  <2>1. CASE switchTo(q)
    <3> DEFINE new == [shell EXCEPT !.active = q.arg, !.selected = TRUE,
                                    !.choosing = @ /\ q.for # None]
    <3>1. q.status = "ok" /\ q.for = r /\ q.mine
      BY <1>0, <1>1, <2>1 DEF switchTo, Opened
    <3>2. /\ q \in Requests /\ q.arg \in Workspace /\ q.arg = RequestWorkspace[r]
          /\ shell \in ShellStates
      BY <1>0, <2>1, <3>1 DEF switchTo, TypeInv, TypeOK, Requests, Names
    <3>3. new \in ShellStates /\ new.active = q.arg
      BY <3>2 DEF ShellStates
    <3>4. Update(q, new, inviteToken)
      BY <2>1, <3>1 DEF switchTo
    <3> HIDE DEF new
    <3>5. shell'.active = new.active
      BY <3>1, <3>2, <3>3, <3>4, UpdatedShell
    <3> QED
      BY <3>2, <3>3, <3>5
  <2>2. CASE openLink(q)
    <3>1. /\ q.kind = "request" /\ q.arg = r /\ q.seen = RequestWorkspace[r]
          /\ shell' = shell
      BY <1>1, <2>2 DEF openLink
    <3> QED
      BY <3>1
  <2>3. CASE signOut(q) \/ reload(q)
    BY <1>1, <2>3 DEF signOut, reload, endSession
  <2>4. CASE \/ restored(q) \/ signIn(q) \/ previewed(q) \/ reloadInvitations(q)
             \/ created(q) \/ acceptedInvitation(q) \/ declinedInvitation(q) \/ handleJoined(q)
    BY <1>1, <2>4 DEF restored, signIn, previewed, reloadInvitations, created,
                      acceptedInvitation, declinedInvitation, handleJoined, tab
  <2> QED
    BY <1>5, <2>1, <2>2, <2>3, <2>4 DEF Deliver
<1> QED
  BY <1>2, <1>3, <1>4, <1>5 DEF Next
------------------------------------------------------------------------------
(* The theorems.                                                            *)

IInv == TypeInv /\ TabInv /\ AddressInv

LEMMA InitIInv == Init => IInv
<1> SUFFICES ASSUME Init
             PROVE  IInv
  OBVIOUS
<1>1. TypeInv
  BY InitTypes
<1>2. /\ Asks("me", None).kind = "me"
      /\ Asks("me", None).status = "sent"
      /\ Asks("me", None).mine
  BY AskedRequests DEF Kind, Arg
<1>3. account = None /\ auth = "checking" /\ inflight = {Asks("me", None)}
  BY DEF Init
<1>4. TabInv
  BY <1>2, <1>3 DEF TabInv, UserInv, OneSignIn, SpinnerInv, Fits, SignIn
<1>5. AddressInv
  BY DEF Init, AddressInv
<1> QED
  BY <1>1, <1>4, <1>5 DEF IInv

\* The tab of the interface keeps the inductive invariant: the requests on their way are
\* about what they name, fit the screen that is shown, and at most one of them signs in.
THEOREM Inductive == Spec => []IInv
<1>1. Init => IInv
  BY InitIInv
<1>2. IInv /\ [Next]_vars => IInv'
  BY NextTypes, NextTab, NextAddress DEF IInv
<1> QED
  BY <1>1, <1>2, PTL DEF Spec

\* Every field of the tab, of its shell and of every request on its way keeps its type
\* (App.tsx, useAuth, AppShell, useWorkspaces).
THEOREM TypeCorrect == Spec => []TypeOK
<1>1. IInv => TypeOK
  BY DEF IInv, TypeInv
<1> QED
  BY <1>1, Inductive, PTL

\* The workspaces on the screen are ones that the user it names belongs or belonged to,
\* whoever an owner removes meanwhile and whatever answers
\* of earlier sessions are still on their way (useWorkspaces' reload).
THEOREM ShowsOwnWorkspaces == Spec => []ListIsOfTheUser
<1>1. IInv => ListIsOfTheUser
  BY DEF IInv, TabInv, UserInv, Held, ListIsOfTheUser
<1> QED
  BY <1>1, Inductive, PTL

\* While the tab says that it checks the session or loads the workspaces, a request is on
\* its way whose answer or error ends the spinner (useAuth, useWorkspaces' loading).
THEOREM SpinnersHaveARequest == Spec => []LoadingIsUnderWay
<1>1. IInv => LoadingIsUnderWay
  <2> SUFFICES ASSUME IInv, Waiting
               PROVE  \E q \in inflight :
                        q.mine /\ q.kind = IF App = "checking" THEN "me" ELSE "workspaces"
    BY DEF LoadingIsUnderWay
  <2>1. CASE App = "checking"
    <3>1. auth = "checking"
      BY <2>1 DEF App
    <3>2. \A q \in inflight : q.kind = "me" /\ q.mine
      BY <3>1 DEF IInv, TabInv, Fits
    <3> QED
      BY <2>1, <3>1, <3>2 DEF IInv, TabInv, SpinnerInv
  <2>2. CASE App # "checking"
    <3>1. account # None /\ ~shell.loaded /\ ~shell.error
      BY <2>2 DEF Waiting, Shows, Shell, App
    <3> QED
      BY <2>2, <3>1 DEF IInv, TabInv, SpinnerInv
  <2> QED
    BY <2>1, <2>2
<1> QED
  BY <1>1, Inductive, PTL

\* A session starts on the first page, at the address of a page load since the last sign-in,
\* or at a link that was opened while nobody was signed in: where an earlier session ended
\* only if the page was loaded there (capturePendingApproval, reset).
THEOREM SessionsStartAtHome == Spec => StartsAtHome
<1>1. IInv /\ [Next]_vars =>
        [account = None /\ account' # None
           => hash' \in {Home} \cup asked /\ storedApproval' \in {None} \cup asked]_vars
  BY StartStep DEF IInv
<1> QED
  BY <1>1, Inductive, PTL DEF Spec, StartsAtHome

\* The effect of an approval link leaves the request open in its own workspace, unless
\* the person switched while the request was fetched (AppShell's openLink, switchTo).
THEOREM LinksOpenInTheirWorkspace == Spec => LinkOpensInItsWorkspace
<1> DEFINE Opens ==
      \A r \in Request :
        (/\ hash # r /\ hash' = r /\ account # None /\ account' # None
         /\ inflight' # inflight)
        => \/ shell'.active = RequestWorkspace[r]
           \/ \E q \in inflight : q.kind = "request" /\ q.arg = r /\ q.seen # shell.active
<1>1. IInv /\ [Next]_vars => [Opens]_vars
  BY LinkStep DEF IInv
<1> QED
  BY <1>1, Inductive, PTL DEF Spec, LinkOpensInItsWorkspace
==============================================================================
