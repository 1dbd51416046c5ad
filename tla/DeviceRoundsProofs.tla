------------------------- MODULE DeviceRoundsProofs -------------------------
(***************************************************************************)
(* The collections of a device, for any callers and any configuration.     *)
(* The sessions of the library follow from SessionInv: the lock lets one   *)
(* caller at a time between its login and its logout, and whoever has      *)
(* logged in and not out yet is the one whom the library knows.  What is   *)
(* open at the end follows from OpenInv and LinksInv.                      *)
(***************************************************************************)
EXTENDS DeviceRounds, TLAPS

Stages == Ended \cup InSession \cup {"locking", "waiting"}
LoggedIn == {"fetching", "logout", "leaving"}

OneInSession ==
    \A c, d \in Callers : stage[c] \in InSession /\ stage[d] \in InSession => c = d

LoggedInIsKnown == \A c \in Callers : stage[c] \in LoggedIn => session = c

KnownIsLoggedIn ==
    session # Nobody => mislaid \/ (session \in Callers /\ stage[session] \in LoggedIn)

\* Only the stop makes a caller leave its fetch.
LeavingIsStopped == \A c \in Callers : stage[c] = "leaving" => c \in Stoppable

\* An appliance has no session.
NoSession ==
    /\ session = Nobody
    /\ \A c \in Callers : stage[c] \notin {"locking", "login", "logout", "leaving"}

SessionInv ==
    /\ stage \in [Callers -> Stages] /\ LeavingIsStopped
    /\ IsLibrary => OneInSession /\ LoggedInIsKnown /\ KnownIsLoggedIn
    /\ ~IsLibrary => NoSession

\* What SessionInv is about.
sessionvars == <<config, stage, session, mislaid>>

\* SessionInv holds when no caller has begun.
LEMMA SessionInit == Init => SessionInv
BY DEF Init, CallsInit, RestInit, SessionInv, Stages, Ended, InSession, OneInSession,
       LoggedInIsKnown, LoggedIn, KnownIsLoggedIn, NoSession, Nobody, LeavingIsStopped

\* A step that leaves configuration, stages and session alone keeps SessionInv.
LEMMA SessionStutter == SessionInv /\ UNCHANGED sessionvars => SessionInv'
BY DEF SessionInv, sessionvars, IsLibrary, OneInSession, LoggedInIsKnown, KnownIsLoggedIn, NoSession,
       LeavingIsStopped

\* A caller moves between stages that have no session.
LEMMA SessionAside ==
    ASSUME SessionInv, NEW c \in Callers, NEW to \in Stages \ InSession,
           stage[c] \notin InSession,
           to = "locking" => IsLibrary,
           stage' = [stage EXCEPT ![c] = to], UNCHANGED <<config, session, mislaid>>
    PROVE  SessionInv'
<1>2. \A d \in Callers : stage'[d] \in InSession => stage[d] \in InSession /\ stage'[d] = stage[d]
  BY DEF SessionInv, InSession
<1>1. stage' \in [Callers -> Stages] /\ LeavingIsStopped'
  BY <1>2 DEF SessionInv, LeavingIsStopped, InSession
<1>3. \A d \in Callers : stage[d] \in LoggedIn => d # c /\ stage'[d] = stage[d]
  BY DEF SessionInv, InSession, LoggedIn
<1>4. CASE IsLibrary
  <2>1. OneInSession'
    BY <1>2, <1>4 DEF SessionInv, OneInSession
  <2>2. LoggedInIsKnown'
    BY <1>2, <1>4 DEF SessionInv, LoggedInIsKnown, LoggedIn, InSession
  <2>3. KnownIsLoggedIn'
    BY <1>3, <1>4 DEF SessionInv, KnownIsLoggedIn
  <2> QED BY <1>1, <1>4, <2>1, <2>2, <2>3 DEF SessionInv, IsLibrary
<1>5. CASE ~IsLibrary
  <2>1. NoSession'
    BY <1>5 DEF SessionInv, NoSession, InSession
  <2> QED BY <1>1, <1>5, <2>1 DEF SessionInv, IsLibrary
<1> QED BY <1>4, <1>5

\* The caller in session moves on: it stays in session with the library, or ends;
\* in the end the library may still know it, but then an answer is mislaid.
LEMMA SessionMoves ==
    ASSUME SessionInv, IsLibrary, NEW c \in Callers, NEW to \in Stages,
           stage[c] \in InSession,
           stage' = [stage EXCEPT ![c] = to], config' = config,
           \/ to \in LoggedIn \ {"leaving"} /\ session' = c
           \/ to \in Ended /\ (session' # Nobody => mislaid')
    PROVE  SessionInv'
<1>1. stage' \in [Callers -> Stages] /\ LeavingIsStopped'
  BY DEF SessionInv, LeavingIsStopped, Ended
<1>2. \A d \in Callers \ {c} : stage'[d] \notin InSession
  BY DEF SessionInv, OneInSession
<1>3. stage'[c] = to
  BY DEF SessionInv
<1>4. OneInSession'
  BY <1>2 DEF OneInSession
<1>5. LoggedInIsKnown'
  BY <1>2, <1>3 DEF LoggedInIsKnown, LoggedIn, InSession, Ended
<1>6. KnownIsLoggedIn'
  BY <1>3 DEF KnownIsLoggedIn
<1> QED BY <1>1, <1>4, <1>5, <1>6 DEF SessionInv, IsLibrary

\* A cancelled caller is out of session, or logs out when it was in a fetch.
LEMMA AfterCancelStages ==
    ASSUME NEW at \in Stages
    PROVE  /\ AfterCancel(at) \in Stages
           /\ AfterCancel(at) \in InSession =>
                 IsLibrary /\ at = "fetching" /\ AfterCancel(at) = "leaving"
           /\ AfterCancel(at) # "locking"
BY DEF AfterCancel, Stages, Ended, InSession

\* The stop keeps SessionInv.
LEMMA SessionStop ==
    ASSUME SessionInv, Stop
    PROVE  SessionInv'
<1> USE CallersAssumption
<1>1. stage' \in [Callers -> Stages] /\ config' = config
  BY AfterCancelStages DEF SessionInv, Stop
<1>2. \A d \in Callers \ Stoppable : stage'[d] = stage[d]
  BY DEF SessionInv, Stop
<1>3. \A d \in Stoppable : stage'[d] = AfterCancel(stage[d])
  BY DEF SessionInv, Stop
<1>4. \A d \in Stoppable : stage'[d] \in InSession =>
        IsLibrary /\ stage[d] = "fetching" /\ stage'[d] = "leaving"
  BY <1>3, AfterCancelStages DEF SessionInv
<1>5. \A d \in Callers : stage'[d] \in InSession => stage[d] \in InSession
  BY <1>2, <1>4 DEF InSession
<1>6. CutOff(Stoppable)
  BY DEF Stop
<1>9. LeavingIsStopped'
  BY <1>2 DEF SessionInv, LeavingIsStopped
<1>7. CASE IsLibrary
  <2>1. OneInSession'
    BY <1>5, <1>7 DEF SessionInv, OneInSession
  <2>2. LoggedInIsKnown'
    <3> SUFFICES ASSUME NEW d \in Callers, stage'[d] \in LoggedIn
                 PROVE  session' = d
      BY DEF LoggedInIsKnown
    <3>1. stage[d] \in LoggedIn /\ stage'[d] \in InSession
      BY <1>2, <1>4 DEF LoggedIn, InSession
    <3>2. session = d
      BY <1>7, <3>1 DEF SessionInv, LoggedInIsKnown
    <3>3. \A c \in Stoppable : stage[c] \notin {"login", "logout", "leaving"}
      <4> SUFFICES ASSUME NEW c \in Stoppable, stage[c] \in {"login", "logout", "leaving"}
                   PROVE  FALSE
        OBVIOUS
      <4>1. c = d
        BY <1>5, <1>7, <3>1 DEF SessionInv, OneInSession, InSession
      <4> QED BY <1>4, <3>1, <4>1
    <3>4. session' = session
      BY <1>6, <3>3 DEF CutOff
    <3> QED BY <3>2, <3>4
  <2>3. KnownIsLoggedIn'
    <3> SUFFICES ASSUME session' # Nobody, ~mislaid'
                 PROVE  session' \in Callers /\ stage'[session'] \in LoggedIn
      BY DEF KnownIsLoggedIn
    <3>1. /\ ~mislaid /\ session' = session
          /\ \A c \in Stoppable : stage[c] \notin {"login", "logout", "leaving"}
      BY <1>6 DEF CutOff
    <3>2. session \in Callers /\ stage[session] \in LoggedIn
      BY <1>7, <3>1 DEF SessionInv, KnownIsLoggedIn
    <3>3. CASE session \in Stoppable
      <4>1. stage[session] = "fetching"
        BY <3>1, <3>2, <3>3 DEF LoggedIn
      <4>2. AfterCancel("fetching") = "leaving"
        BY <1>7, ZenonT(30) DEF AfterCancel, Ended
      <4> QED BY <1>3, <3>1, <3>2, <3>3, <4>1, <4>2 DEF LoggedIn
    <3>4. CASE session \notin Stoppable
      BY <1>2, <3>1, <3>2, <3>4
    <3> QED BY <3>3, <3>4
  <2> QED BY <1>1, <1>7, <1>9, <2>1, <2>2, <2>3 DEF SessionInv, IsLibrary
<1>8. CASE ~IsLibrary
  <2>1. \A c \in Callers : stage[c] \notin {"locking", "login", "logout", "leaving"}
    BY <1>8 DEF SessionInv, NoSession
  <2>2. session' = Nobody
    BY <1>6, <1>8, <2>1 DEF CutOff, SessionInv, NoSession
  <2>3. \A c \in Callers : stage'[c] \notin {"locking", "login", "logout", "leaving"}
    BY <1>1, <1>2, <1>3, <1>4, <1>8, <2>1, AfterCancelStages DEF SessionInv, InSession
  <2> QED BY <1>1, <1>8, <1>9, <2>2, <2>3 DEF SessionInv, NoSession, IsLibrary
<1> QED BY <1>7, <1>8

\* So does close(): what was sent with the client fails.
LEMMA SessionClose ==
    ASSUME SessionInv, CloseBegins
    PROVE  SessionInv'
<1>1. config' = config /\ CutOff(Callers)
  BY DEF CloseBegins
<1>2. \A c \in Callers : stage'[c] = CASE stage[c] = "login" -> "failed"
                                       [] stage[c] = "logout" -> "returned"
                                       [] OTHER -> stage[c]
  BY DEF CloseBegins
<1>3. \A c \in Callers :
        /\ stage[c] = "login" => stage'[c] = "failed"
        /\ stage[c] = "logout" => stage'[c] = "returned"
        /\ stage[c] \notin {"login", "logout"} => stage'[c] = stage[c]
  BY <1>2
<1>4. stage' \in [Callers -> Stages] /\ LeavingIsStopped'
  BY <1>3 DEF SessionInv, CloseBegins, Stages, Ended, InSession, LeavingIsStopped
<1>5. \A c \in Callers : stage[c] # "leaving"
  BY DEF SessionInv, LeavingIsStopped, CloseBegins, Ended
<1>6. CASE IsLibrary
  <2>1. OneInSession'
    BY <1>3, <1>6 DEF SessionInv, OneInSession, InSession
  <2>2. LoggedInIsKnown'
    <3> SUFFICES ASSUME NEW d \in Callers, stage'[d] \in LoggedIn
                 PROVE  session' = d
      BY DEF LoggedInIsKnown
    <3>1. stage[d] = "fetching"
      BY <1>3, <1>5 DEF LoggedIn
    <3>2. session = d
      BY <1>6, <3>1 DEF SessionInv, LoggedInIsKnown, LoggedIn
    <3>3. \A c \in Callers : stage[c] \notin {"login", "logout", "leaving"}
      BY <1>6, <3>1 DEF SessionInv, OneInSession, InSession
    <3> QED BY <1>1, <3>2, <3>3 DEF CutOff
  <2>3. KnownIsLoggedIn'
    <3> SUFFICES ASSUME session' # Nobody, ~mislaid'
                 PROVE  session' \in Callers /\ stage'[session'] \in LoggedIn
      BY DEF KnownIsLoggedIn
    <3>1. /\ ~mislaid /\ session' = session
          /\ \A c \in Callers : stage[c] \notin {"login", "logout", "leaving"}
      BY <1>1 DEF CutOff
    <3> QED BY <1>3, <1>6, <3>1 DEF SessionInv, KnownIsLoggedIn, LoggedIn
  <2> QED BY <1>1, <1>4, <1>6, <2>1, <2>2, <2>3 DEF SessionInv, IsLibrary
<1>7. CASE ~IsLibrary
  <2>1. \A c \in Callers : stage[c] \notin {"locking", "login", "logout", "leaving"}
    BY <1>7 DEF SessionInv, NoSession
  <2>2. session' = Nobody /\ \A c \in Callers : stage'[c] = stage[c]
    BY <1>1, <1>3, <1>7, <2>1 DEF CutOff, SessionInv, NoSession
  <2> QED BY <1>1, <1>4, <1>7, <2>1, <2>2 DEF SessionInv, NoSession, IsLibrary
<1> QED BY <1>6, <1>7

\* One step of a caller that fetches from the library or the appliance.
LEMMA SessionRestStep ==
    ASSUME SessionInv, NEW c \in Callers, RestStep(c)
    PROVE  SessionInv'
<1> USE CallersAssumption
<1>1. CASE TakeSession(c)
  <2>1. IsLibrary /\ stage[c] = "locking" /\ \A d \in Callers : stage[d] \notin InSession
    BY <1>1 DEF TakeSession, Move, SessionFree, SessionLocked, SessionInv, NoSession, InSession
  <2>2. CASE Usable
    <3>1. stage' = [stage EXCEPT ![c] = "login"] /\ UNCHANGED <<config, session, mislaid>>
      BY <1>1, <2>2 DEF TakeSession, Move
    <3>2. stage' \in [Callers -> Stages] /\ \A d \in Callers \ {c} : stage'[d] \notin InSession
      BY <2>1, <3>1 DEF SessionInv, Stages, InSession
    <3>3. stage'[c] = "login"
      BY <3>1 DEF SessionInv
    <3>4. OneInSession' /\ LoggedInIsKnown' /\ LeavingIsStopped'
      BY <3>2, <3>3 DEF OneInSession, LoggedInIsKnown, LoggedIn, InSession, LeavingIsStopped
    <3>5. session # Nobody => mislaid
      BY <2>1 DEF SessionInv, KnownIsLoggedIn, LoggedIn, InSession
    <3> QED BY <2>1, <3>1, <3>2, <3>4, <3>5 DEF SessionInv, KnownIsLoggedIn, IsLibrary
  <2>3. CASE ~Usable
    <3>1. stage' = [stage EXCEPT ![c] = "failed"] /\ UNCHANGED <<config, session, mislaid>>
      BY <1>1, <2>3 DEF TakeSession, Move
    <3> QED BY <2>1, <3>1, SessionAside DEF Stages, Ended, InSession
  <2> QED BY <2>2, <2>3
<1>2. CASE LoginAnswered(c)
  <2>1. IsLibrary /\ stage[c] \in InSession
    BY <1>2 DEF LoginAnswered, Move, SessionInv, NoSession, InSession
  <2> QED BY <1>2, <2>1, SessionMoves DEF LoginAnswered, Move, LoggedIn, Stages, InSession
<1>3. CASE LoginFails(c)
  <2>1. IsLibrary /\ stage[c] = "login"
    BY <1>3 DEF LoginFails, Move, SessionInv, NoSession
  <2>2. session # Nobody => mislaid
    BY <2>1 DEF SessionInv, KnownIsLoggedIn, OneInSession, LoggedIn, InSession
  <2>3. session' # Nobody => mislaid'
    BY <1>3, <2>2 DEF LoginFails
  <2>4. stage' = [stage EXCEPT ![c] = "failed"] /\ config' = config
    BY <1>3 DEF LoginFails, Move
  <2> QED BY <2>1, <2>3, <2>4, SessionMoves DEF Ended, Stages, InSession
<1>4. ASSUME NEW name \in DOMAIN asked[c],
             SendGet(c, name) \/ GetAnswered(c, name) \/ GetFails(c, name)
      PROVE  SessionInv'
  BY <1>4, SessionStutter DEF SendGet, GetAnswered, GetFails, Answer, callvars, sessionvars
<1>5. CASE NextStage(c)
  BY <1>5, SessionStutter DEF NextStage, sessionvars
<1>6. CASE FetchReturns(c)
  <2>1. stage[c] = "fetching" /\ config' = config /\ session' = session
    BY <1>6 DEF FetchReturns, Settled
  <2>2. CASE IsLibrary
    <3>1. session = c
      BY <2>1, <2>2 DEF SessionInv, LoggedInIsKnown, LoggedIn
    <3>2. CASE Usable
      BY <1>6, <2>1, <2>2, <3>1, <3>2, SessionMoves
         DEF FetchReturns, LoggedIn, Stages, InSession
    <3>3. CASE ~Usable
      BY <1>6, <2>1, <2>2, <3>3, SessionMoves DEF FetchReturns, Ended, Stages, InSession
    <3> QED BY <3>2, <3>3
  <2>3. CASE ~IsLibrary
    <3>1. stage' = [stage EXCEPT ![c] = "returned"]
      BY <1>6, <2>3 DEF FetchReturns
    <3> QED BY <2>1, <2>3, <3>1
            DEF SessionInv, NoSession, IsLibrary, LeavingIsStopped, Stages, Ended
  <2> QED BY <2>2, <2>3
<1>7. ASSUME LogoutAnswered(c) \/ LogoutLost(c)
      PROVE  SessionInv'
  <2>1. stage[c] \in {"logout", "leaving"} /\ config' = config
    BY <1>7 DEF LogoutAnswered, LogoutLost, AfterLogout
  <2>2. IsLibrary /\ session = c
    BY <2>1 DEF SessionInv, NoSession, LoggedInIsKnown, LoggedIn
  <2>3. PICK to \in {"returned", "cancelled"} : stage' = [stage EXCEPT ![c] = to]
    BY <1>7, <2>1 DEF LogoutAnswered, LogoutLost, AfterLogout
  <2>4. session' # Nobody => mislaid'
    BY <1>7, <2>2 DEF LogoutAnswered, LogoutLost
  <2> QED BY <2>1, <2>2, <2>3, <2>4, SessionMoves DEF Ended, Stages, InSession
<1> QED BY <1>1, <1>2, <1>3, <1>4, <1>5, <1>6, <1>7 DEF RestStep

\* One step of the thread of a caller leaves the sessions alone.
LEMMA SessionCommandStep ==
    ASSUME SessionInv, NEW c \in Callers, CommandStep(c) \/ LosesConnection(c),
           UNCHANGED restvars
    PROVE  SessionInv'
<1>1. CASE ThreadEnds(c)
  <2>1. CASE stage[c] # "waiting"
    BY <1>1, <2>1, SessionStutter DEF ThreadEnds, restvars, sessionvars
  <2>2. CASE stage[c] = "waiting"
    <3>1. PICK to \in {"failed", "returned"} : stage' = [stage EXCEPT ![c] = to]
      BY <1>1, <2>2 DEF ThreadEnds
    <3> QED BY <1>1, <2>2, <3>1, SessionAside
            DEF ThreadEnds, restvars, Stages, Ended, InSession
  <2> QED BY <2>1, <2>2
<1>2. ASSUME ~ThreadEnds(c)
      PROVE  SessionInv'
  BY <1>2, SessionStutter
     DEF CommandStep, LosesConnection, Connects, Executes, Exits, Reads, Gets, Raises, Answer,
         callvars, restvars, sessionvars
<1> QED BY <1>1, <1>2

\* Every step keeps SessionInv.
LEMMA SessionNext ==
    ASSUME SessionInv, [Next]_vars
    PROVE  SessionInv'
<1>1. CASE UNCHANGED vars
  BY <1>1, SessionStutter DEF vars, callvars, restvars, sessionvars
<1>2. ASSUME NEW c \in Callers, Begin(c)
      PROVE  SessionInv'
  <2>1. stage[c] = "idle" /\ UNCHANGED <<config, session, mislaid>>
    BY <1>2 DEF Begin, SkipCollect, BeginFetch, StartThread, Move, restvars
  <2>2. CASE IsLibrary /\ stage' = [stage EXCEPT ![c] = "locking"]
    BY <2>1, <2>2, SessionAside DEF Stages, Ended, InSession
  <2>3. CASE stage' = [stage EXCEPT ![c] = "skipped"] \/ stage' = [stage EXCEPT ![c] = "waiting"]
    BY <2>1, <2>3, SessionAside DEF Stages, Ended, InSession
  <2>4. CASE ~IsLibrary /\ stage' = [stage EXCEPT ![c] = "fetching"]
    BY <2>1, <2>4
       DEF SessionInv, NoSession, IsLibrary, LeavingIsStopped, Stages, InSession
  <2> QED BY <1>2, <2>2, <2>3, <2>4 DEF Begin, SkipCollect, BeginFetch, StartThread, Move
<1>3. ASSUME NEW c \in Callers, Collecting(c) \/ Loses(c)
      PROVE  SessionInv'
  BY <1>3, SessionRestStep, SessionCommandStep DEF Collecting, Loses
<1>4. CASE Process
  BY <1>4, SessionStop, SessionClose, SessionStutter
     DEF Process, RestProcess, CloseEnds, sessionvars
<1> QED BY <1>1, <1>2, <1>3, <1>4 DEF Next

\* A fetch from the library lies inside a session of its own: SessionInv keeps a
\* second login out until the logout of the first.
THEOREM FetchesAreInSession == Spec => []GetsInsideSession
<1>1. SessionInv => GetsInsideSession
  BY DEF SessionInv, LoggedInIsKnown, LoggedIn, GetsInsideSession
<1> QED BY <1>1, SessionInit, SessionNext, PTL DEF Spec

\* A session outlives all collections only when a login or logout has no answer.
THEOREM SessionsAreEnded == Spec => []SessionsEnd
<1>1. SessionInv => SessionsEnd
  BY DEF SessionInv, KnownIsLoggedIn, NoSession, LoggedIn, Ended, SessionsEnd
<1> QED BY <1>1, SessionInit, SessionNext, PTL DEF Spec

-----------------------------------------------------------------------------
(* What is open.                                                            *)

\* Requests belong to a caller in its fetch; the HTTP client that is open is the
\* present one; once the collector is closed, nobody is left to make another.
OpenInv ==
    /\ stage \in [Callers -> Stages]
    /\ asked = [c \in Callers |-> asked[c]]
    /\ \A c \in Callers : stage[c] # "fetching" => DOMAIN asked[c] = {}
    /\ made \in Nat /\ 0 \notin opened
    /\ phase \in {"up", "stopping"} => opened \subseteq {httpClient}
    /\ phase \in {"closing", "closed"} /\ ~outlived =>
          opened = {} /\ \A c \in Callers : stage[c] \in Ended \cup {"waiting"}
    /\ phase \in {"up", "stopping", "closing", "closed"}

\* A thread that is over has no connection.
LinksInv ==
    /\ thread = [c \in Callers |-> thread[c]] /\ links = [c \in Callers |-> links[c]]
    /\ \A c \in Callers : thread[c] = "over" => links[c] = {}

\* Both hold before any caller begins.
LEMMA OpenInit == Init => OpenInv /\ LinksInv
<1> SUFFICES ASSUME Init
             PROVE  OpenInv /\ LinksInv
  OBVIOUS
<1>1. DOMAIN <<>> = {}
  OBVIOUS
<1> QED BY <1>1 DEF Init, CallsInit, RestInit, CommandInit, OpenInv, LinksInv, Stages, Ended

\* The client property opens an HTTP client only when none is.
LEMMA OpenUse ==
    ASSUME OpenInv, UseClient
    PROVE  /\ made' \in Nat /\ 0 \notin opened'
           /\ phase \in {"up", "stopping"} => opened' \subseteq {httpClient'}
<1>1. CASE httpClient # 0
  BY <1>1 DEF OpenInv, UseClient
<1>2. CASE httpClient = 0
  <2>1. made' = made + 1 /\ httpClient' = made + 1 /\ opened' = opened \cup {made + 1}
    BY <1>2 DEF UseClient
  <2>2. phase \in {"up", "stopping"} => opened = {}
    BY <1>2 DEF OpenInv
  <2> QED BY <2>1, <2>2 DEF OpenInv
<1> QED BY <1>1, <1>2

\* A step of a caller who fetches keeps OpenInv.
LEMMA OpenRestStep ==
    ASSUME OpenInv, NEW c \in Callers, RestStep(c)
    PROVE  OpenInv'
<1> USE DEF OpenInv
<1>0. DOMAIN <<>> = {}
  OBVIOUS
<1>1. CASE TakeSession(c)
  BY <1>1 DEF TakeSession, Move, UseClient, Stages, Ended, InSession
<1>2. CASE LoginAnswered(c)
  BY <1>2 DEF LoginAnswered, Move, StartFetch, Stages, Ended, InSession
<1>3. CASE LoginFails(c)
  BY <1>3 DEF LoginFails, Move, Stages, Ended, InSession
<1>4. ASSUME NEW name \in DOMAIN asked[c],
             SendGet(c, name) \/ GetAnswered(c, name) \/ GetFails(c, name)
      PROVE  OpenInv'
  <2>1. stage[c] = "fetching" /\ stage' = stage /\ UNCHANGED <<phase, outlived>>
    BY <1>4 DEF SendGet, GetAnswered, GetFails, callvars
  <2>2. PICK now : asked' = [asked EXCEPT ![c][name] = now]
    BY <1>4 DEF SendGet, GetAnswered, GetFails
  <2>3. CASE SendGet(c, name)
    <3>1. UseClient
      BY <2>3 DEF SendGet
    <3>2. ~(phase \in {"closing", "closed"} /\ ~outlived)
      BY <2>1 DEF Ended
    <3> QED BY <2>1, <2>2, <3>1, <3>2, OpenUse
  <2>4. CASE GetAnswered(c, name) \/ GetFails(c, name)
    BY <2>1, <2>2, <2>4 DEF GetAnswered, GetFails
  <2> QED BY <1>4, <2>3, <2>4
<1>5. CASE NextStage(c)
  BY <1>5 DEF NextStage, Settled
<1>6. CASE FetchReturns(c)
  <2>1. stage[c] = "fetching" /\ UNCHANGED <<phase, outlived>> /\ asked' = [asked EXCEPT ![c] = <<>>]
    BY <1>6 DEF FetchReturns, Settled
  <2>2. PICK to \in {"logout", "failed", "returned"} : stage' = [stage EXCEPT ![c] = to]
    BY <1>6 DEF FetchReturns
  <2>3. UseClient \/ UNCHANGED <<httpClient, made, opened>>
    BY <1>6 DEF FetchReturns
  <2>4. ~(phase \in {"closing", "closed"} /\ ~outlived)
    BY <2>1 DEF Ended
  <2>5. /\ made' \in Nat /\ 0 \notin opened'
        /\ phase \in {"up", "stopping"} => opened' \subseteq {httpClient'}
    BY <2>3, OpenUse
  <2> QED BY <1>0, <2>1, <2>2, <2>4, <2>5 DEF Stages, Ended, InSession
<1>7. ASSUME LogoutAnswered(c) \/ LogoutLost(c)
      PROVE  OpenInv'
  <2>1. PICK to \in {"returned", "cancelled"} : stage' = [stage EXCEPT ![c] = to]
    BY <1>7 DEF LogoutAnswered, LogoutLost, AfterLogout
  <2>2. stage[c] # "fetching" /\ UNCHANGED <<phase, asked, httpClient, made, opened, outlived>>
    BY <1>7 DEF LogoutAnswered, LogoutLost, AfterLogout
  <2> QED BY <2>1, <2>2 DEF Stages, Ended
<1> QED BY <1>1, <1>2, <1>3, <1>4, <1>5, <1>6, <1>7 DEF RestStep

\* So do the stop and close().
LEMMA OpenProcess ==
    ASSUME OpenInv, RestProcess
    PROVE  OpenInv'
<1> USE DEF OpenInv
<1>1. CASE Stop
  <2>1. stage' \in [Callers -> Stages]
    BY <1>1, AfterCancelStages DEF Stop
  <2>2. \A c \in Callers : stage'[c] # "fetching" => DOMAIN asked'[c] = {}
    BY <1>1 DEF Stop
  <2> QED BY <1>1, <2>1, <2>2 DEF Stop
<1>2. CASE CloseBegins
  <2>1. \A c \in Callers :
          /\ stage[c] = "login" => stage'[c] = "failed"
          /\ stage[c] = "logout" => stage'[c] = "returned"
          /\ stage[c] \notin {"login", "logout"} => stage'[c] = stage[c]
    <3>1. \A c \in Callers : stage'[c] = CASE stage[c] = "login" -> "failed"
                                           [] stage[c] = "logout" -> "returned"
                                           [] OTHER -> stage[c]
      BY <1>2 DEF CloseBegins
    <3> QED BY <3>1
  <2>2. stage' \in [Callers -> Stages]
    BY <1>2, <2>1 DEF CloseBegins, Stages, Ended
  <2>3. \A c \in Callers : DOMAIN asked'[c] = DOMAIN asked[c]
    BY <1>2 DEF CloseBegins
  <2>4. \A c \in Callers : stage'[c] # "fetching" => DOMAIN asked'[c] = {}
    BY <2>1, <2>3
  <2>5. opened' = {} /\ made' = made /\ phase' = "closing"
    BY <1>2 DEF CloseBegins
  <2>6. ~outlived' => \A c \in Callers : stage'[c] \in Ended
    BY <1>2, <2>1 DEF CloseBegins, Ended
  <2>7. asked' = [c \in Callers |-> asked'[c]]
    BY <1>2 DEF CloseBegins
  <2> QED BY <2>2, <2>4, <2>5, <2>6, <2>7
<1>3. CASE CloseEnds
  BY <1>3 DEF CloseEnds
<1> QED BY <1>1, <1>2, <1>3 DEF RestProcess

\* Every step keeps both invariants.
LEMMA OpenNext == OpenInv /\ LinksInv /\ [Next]_vars => OpenInv' /\ LinksInv'
<1> SUFFICES ASSUME OpenInv, LinksInv, [Next]_vars
             PROVE  OpenInv' /\ LinksInv'
  OBVIOUS
<1>1. ASSUME UNCHANGED <<stage, phase>>, UNCHANGED restvars
      PROVE  OpenInv'
  BY <1>1 DEF OpenInv, restvars
<1>2. ASSUME UNCHANGED commandvars
      PROVE  LinksInv'
  BY <1>2 DEF LinksInv, commandvars
<1>3. ASSUME NEW c \in Callers, NEW to \in Ended \cup {"waiting"}, stage[c] # "fetching",
             stage' = [stage EXCEPT ![c] = to], phase' = phase, UNCHANGED restvars
      PROVE  OpenInv'
  BY <1>3 DEF OpenInv, restvars, Stages
<1>4. ASSUME NEW c \in Callers, Begin(c)
      PROVE  OpenInv' /\ LinksInv'
  <2>1. CASE SkipCollect(c) /\ UNCHANGED <<restvars, commandvars>>
    BY <1>2, <1>3, <2>1 DEF SkipCollect, Move, Ended
  <2>2. CASE BeginFetch(c) /\ UNCHANGED commandvars
    <3>1. OpenInv'
      BY <2>2 DEF BeginFetch, Move, StartFetch, OpenInv, Stages, InSession
    <3> QED BY <1>2, <2>2, <3>1
  <2>3. CASE StartThread(c) /\ UNCHANGED restvars
    <3>1. OpenInv'
      BY <1>3, <2>3 DEF StartThread, Move
    <3>2. thread[c] = "none" /\ thread' = [thread EXCEPT ![c] = thread'[c]] /\ links' = links
      BY <2>3 DEF StartThread, Advance, LinksInv
    <3>3. thread'[c] # "over"
      BY <2>3 DEF StartThread, Advance, LinksInv
    <3> QED BY <3>1, <3>2, <3>3 DEF LinksInv
  <2> QED BY <1>4, <2>1, <2>2, <2>3 DEF Begin
<1>5. ASSUME NEW c \in Callers, CommandStep(c) \/ LosesConnection(c), UNCHANGED restvars
      PROVE  OpenInv' /\ LinksInv'
  <2>1. CASE ThreadEnds(c)
    <3>1. OpenInv'
      BY <1>1, <1>3, <1>5, <2>1 DEF ThreadEnds, Ended
    <3>2. LinksInv'
      BY <2>1 DEF ThreadEnds, LinksLeft, LinksInv
    <3> QED BY <3>1, <3>2
  <2>2. ASSUME ~ThreadEnds(c)
        PROVE  OpenInv' /\ LinksInv'
    <3>1. OpenInv'
      BY <1>1, <1>5, <2>2
         DEF CommandStep, LosesConnection, Connects, Executes, Exits, Reads, Gets, Raises, callvars
    <3>2. CASE Connects(c)
      <4>1. /\ thread' = [thread EXCEPT ![c] = NextLink[thread[c]]]
            /\ thread[c] \in {"jump", "channel", "connect"}
            /\ links' = [links EXCEPT ![c] = @ \cup {thread[c]}]
        BY <3>2 DEF Connects, NextLink
      <4>2. NextLink[thread[c]] # "over"
        BY <4>1 DEF NextLink
      <4> QED BY <3>1, <4>1, <4>2 DEF LinksInv
    <3>3. ASSUME ~Connects(c)
          PROVE  LinksInv'
      BY <1>5, <2>2, <3>3
         DEF CommandStep, LosesConnection, Executes, Exits, Reads, Gets, Raises, Advance, LinksInv
    <3> QED BY <3>1, <3>2, <3>3
  <2> QED BY <2>1, <2>2
<1>6. ASSUME NEW c \in Callers, Collecting(c) \/ Loses(c)
      PROVE  OpenInv' /\ LinksInv'
  BY <1>2, <1>5, <1>6, OpenRestStep DEF Collecting, Loses
<1>7. CASE Process
  BY <1>2, <1>7, OpenProcess DEF Process
<1>8. CASE UNCHANGED vars
  BY <1>1, <1>2, <1>8 DEF vars, callvars
<1> QED BY <1>4, <1>6, <1>7, <1>8 DEF Next

\* A thread that is over has closed its connections; when the collector is closed,
\* with nobody in a collection, its HTTP client is, and no other one is made.
THEOREM NothingIsLeftOpen == Spec => []NothingStaysOpen
<1>1. OpenInv /\ LinksInv => NothingStaysOpen
  BY DEF OpenInv, LinksInv, NothingStaysOpen
<1> QED BY <1>1, OpenInit, OpenNext, PTL DEF Spec

-----------------------------------------------------------------------------
(* The configuration, for any entries of the file: it is what is parsed of   *)
(* one of them, and never changes.  So SkipsWhatCannotRun is about           *)
(* ParseCollector and Skipped alone: a setting that is parsed is no          *)
(* placeholder, and the numbers of a schedule which the file leaves out are  *)
(* in range whenever those that it gives are.                                *)

ConfigInv == \E raw \in RawConfigs : Builds(raw) /\ config = ParseCollector(raw)

\* No step changes the configuration.
LEMMA ConfigStays ==
    ASSUME [Next]_vars
    PROVE  config' = config
<1>1. ASSUME NEW c \in Callers, Begin(c)
      PROVE  config' = config
  BY <1>1 DEF Begin, SkipCollect, BeginFetch, StartThread
<1>2. ASSUME NEW c \in Callers, RestStep(c)
      PROVE  config' = config
  BY <1>2 DEF RestStep, TakeSession, LoginAnswered, LoginFails, SendGet, GetAnswered, GetFails,
              NextStage, FetchReturns, LogoutAnswered, LogoutLost, callvars
<1>3. ASSUME NEW c \in Callers, CommandStep(c) \/ LosesConnection(c)
      PROVE  config' = config
  BY <1>3 DEF CommandStep, Connects, Executes, Exits, Reads, Gets, Raises, ThreadEnds,
              LosesConnection, callvars
<1>4. ASSUME RestProcess
      PROVE  config' = config
  BY <1>4 DEF RestProcess, Stop, CloseBegins, CloseEnds
<1>5. ASSUME UNCHANGED vars
      PROVE  config' = config
  BY <1>5 DEF vars, callvars
<1> QED BY <1>1, <1>2, <1>3, <1>4, <1>5 DEF Next, Collecting, Loses, Process

\* It is parsed of an entry of the file.
LEMMA ConfigIsParsed == Spec => []ConfigInv
<1>1. Init => ConfigInv
  BY DEF Init, ConfigInv
<1>2. ConfigInv /\ [Next]_vars => ConfigInv'
  BY ConfigStays DEF ConfigInv
<1> QED BY <1>1, <1>2, PTL DEF Spec

-----------------------------------------------------------------------------
(* What is parsed of an entry.                                               *)

\* A text is missing or filled in, never a placeholder.
LEMMA TextsAreFilled ==
    /\ \A text : Optional(text) # ToBeFilled
    /\ \A text, file : Secret(text, file) # ToBeFilled
BY DEF Optional, Secret, Unfilled, ToBeFilled

Parsed == {"schedules", "concurrency", "spacing"}
Secrets == {"community", "token", "username", "password"}

\* What becomes of each setting.
LEMMA SettingsParsed ==
    ASSUME NEW raw \in RawConfigs, config = ParseCollector(raw)
    PROVE  /\ config.type = raw.type /\ config.protocol = raw.protocol
           /\ config.enabled = raw.enabled /\ config.schedule = raw.schedule
           /\ config.schedules = EffectiveSchedules(raw)
           /\ config.concurrency = OrDefault(raw.concurrency, 4)
           /\ config.spacing = OrDefault(raw.spacing, 0)
           /\ \A setting \in OptionalSettings \cup Secrets : config[setting] # ToBeFilled
<1> DEFINE texts == [setting \in OptionalSettings |-> Optional(raw[setting])]
           values == [community |-> Secret(raw.community, raw.community_file),
                      token |-> Secret(raw.token, raw.token_file),
                      username |-> Secret(raw.username, raw.username_file),
                      password |-> Secret(raw.password, raw.password_file),
                      schedules |-> EffectiveSchedules(raw),
                      concurrency |-> OrDefault(raw.concurrency, 4),
                      spacing |-> OrDefault(raw.spacing, 0),
                      jobs_window |-> OrDefault(raw.jobs_window, OrDefault(raw.window, 10)),
                      backups_window |-> OrDefault(raw.backups_window, OrDefault(raw.window, 20)),
                      window |-> OrDefault(raw.window, 20)]
<1>1. config = Over(texts, Over(values, raw))
  BY DEF ParseCollector
<1>2. DOMAIN values = {"community", "token", "username", "password", "schedules", "concurrency",
                       "spacing", "jobs_window", "backups_window", "window"}
  OBVIOUS
<1>3. \A x \in DOMAIN values \ OptionalSettings : config[x] = values[x]
  BY <1>1, <1>2 DEF Over, OptionalSettings
<1>4. \A x \in DOMAIN raw \ (DOMAIN values \cup OptionalSettings) : config[x] = raw[x]
  BY <1>1 DEF Over
<1>5. \A x \in OptionalSettings : config[x] = Optional(raw[x])
  BY <1>1 DEF Over
<1>6. \A x \in {"type", "protocol", "enabled", "schedule"} : config[x] = raw[x]
  BY <1>2, <1>4, RawConfigsAssumption DEF OptionalSettings
<1>7. \A x \in Secrets \cup Parsed : config[x] = values[x]
  BY <1>2, <1>3 DEF OptionalSettings, Secrets, Parsed
<1>8. \A x \in OptionalSettings : config[x] # ToBeFilled
  BY <1>5, TextsAreFilled
<1>9. \A x \in Secrets : config[x] # ToBeFilled
  BY <1>7, TextsAreFilled DEF Secrets
<1> QED BY <1>6, <1>7, <1>8, <1>9 DEF Parsed

-----------------------------------------------------------------------------
(* Schedules.                                                                *)

Types == {"DXi", "DD", "i6000", "Networker", "ZFS"}

\* A schedule is valid when the numbers that are given are in range.
LEMMA GivenDecides ==
    ASSUME NEW given \in Schedule, NEW type \in Types,
           NEW interval \in Nat \ {0}, NEW second \in 0..59
    PROVE  LET schedule == ScheduleOf(given, type, interval, second)
           IN  IsValid(schedule) <=> InRange(given, schedule.interval)
<1> DEFINE i == OrDefault(given.interval, interval)
           offset == OrDefault(given.offset, OffsetOf(type, i))
           s == OrDefault(given.second, second)
<1>1. /\ given.interval \in Int /\ given.offset \in Int /\ given.second \in Int
      /\ i \in Int
  BY DEF Schedule, OrDefault
<1>2. DefaultOffset(type) \in 0..4
  BY DEF DefaultOffset, Types
<1>3. ScheduleOf(given, type, interval, second)
        = [interval |-> i, offset |-> offset, second |-> s]
  BY DEF ScheduleOf, ScheduleConfig
<1>4. (given.interval # Default => given.interval > 0) <=> i > 0
  BY <1>1 DEF OrDefault
<1>5. i > 0 => ((given.offset # Default => 0 <= given.offset /\ given.offset < i)
                  <=> (0 <= offset /\ offset < i))
  BY <1>1, <1>2 DEF OrDefault, OffsetOf
<1>6. (given.second # Default => given.second \in 0..59) <=> (0 <= s /\ s <= 59)
  BY <1>1 DEF OrDefault
<1> QED BY <1>3, <1>4, <1>5, <1>6 DEF IsValid, InRange

\* A class with an interval of its own or the default one, and neither an offset nor
\* a second, is scheduled: the default offset of its type gives way to the interval.
THEOREM DefaultsAreValid ==
    ASSUME NEW given \in Schedule, NEW type \in Types,
           NEW interval \in Nat \ {0}, NEW second \in 0..59,
           given.interval \in (Nat \ {0}) \cup {Default},
           given.offset = Default, given.second = Default
    PROVE  IsValid(ScheduleOf(given, type, interval, second))
<1>1. InRange(given, ScheduleOf(given, type, interval, second).interval)
  BY DEF InRange
<1> QED BY <1>1, GivenDecides

\* So it is with each schedule of a collector.
LEMMA SchedulesInRange ==
    ASSUME NEW raw \in RawConfigs, config = ParseCollector(raw), Builds(raw),
           NEW class \in DOMAIN config.schedules
    PROVE  IsValid(config.schedules[class])
             <=> InRange(GivenFor(class), config.schedules[class].interval)
<1>1. /\ config.schedules = EffectiveSchedules(raw) /\ config.schedule = raw.schedule
      /\ ScheduleInFile(raw.schedule) /\ raw.type \in Types
  BY SettingsParsed, RawConfigsAssumption DEF Builds, Types
<1>2. NullSchedule = [interval |-> Default, offset |-> Default, second |-> Default]
      /\ NullSchedule \in Schedule
  BY DEF NullSchedule, ScheduleConfig, Schedule, Default
<1>3. CASE raw.schedule.form = "classes"
  <2> DEFINE given == raw.schedule.classes[class].fields
  <2>1. /\ class \in CollectionClasses /\ class \in DOMAIN raw.schedule.classes
        /\ config.schedules[class] = ScheduleOf(given, raw.type,
                                         DefaultInterval(class, raw.type), DefaultSecond(class))
    BY <1>1, <1>3 DEF EffectiveSchedules
  <2>2. given \in Schedule
    BY <1>1, <1>3, <2>1 DEF ScheduleInFile
  <2>3. DefaultInterval(class, raw.type) \in Nat \ {0} /\ DefaultSecond(class) \in 0..59
    BY <2>1 DEF DefaultInterval, DefaultSecond, CollectionClasses
  <2>4. GivenFor(class) = given
    BY <1>1, <1>3 DEF GivenFor
  <2> QED BY <1>1, <2>1, <2>2, <2>3, <2>4, GivenDecides
<1>4. CASE raw.schedule.form = "single"
  <2>1. config.schedules[class] = ScheduleOf(raw.schedule.fields, raw.type, 5, 0)
    BY <1>1, <1>4 DEF EffectiveSchedules
  <2>2. raw.schedule.fields \in Schedule /\ GivenFor(class) = raw.schedule.fields
    BY <1>1, <1>4 DEF ScheduleInFile, GivenFor
  <2> QED BY <1>1, <2>1, <2>2, GivenDecides
<1>5. CASE raw.schedule.form = "second"
  <2>1. config.schedules[class] = [interval |-> 1, offset |-> 0, second |-> raw.schedule.second]
    BY <1>1, <1>5 DEF EffectiveSchedules, ScheduleConfig
  <2>2. /\ raw.schedule.second \in Int \ {Default}
        /\ GivenFor(class) = [interval |-> Default, offset |-> Default,
                              second |-> raw.schedule.second]
    BY <1>1, <1>2, <1>5 DEF ScheduleInFile, GivenFor
  <2> QED BY <2>1, <2>2 DEF IsValid, InRange
<1>6. CASE raw.schedule.form = "absent"
  <2>1. config.schedules[class] = [interval |-> 5, offset |-> DefaultOffset(raw.type), second |-> 0]
    BY <1>1, <1>6 DEF EffectiveSchedules, DefaultSchedule, ScheduleConfig
  <2>2. GivenFor(class) = NullSchedule
    BY <1>1, <1>6 DEF GivenFor
  <2>3. DefaultOffset(raw.type) \in 0..4
    BY <1>1 DEF DefaultOffset, Types
  <2> QED BY <1>2, <2>1, <2>2, <2>3 DEF IsValid, InRange
<1> QED BY <1>1, <1>3, <1>4, <1>5, <1>6 DEF ScheduleInFile

-----------------------------------------------------------------------------
(* Settings.                                                                 *)

\* A client that is built has all it reads exactly when nothing skips it.
LEMMA CompleteIsRun ==
    ASSUME NEW raw \in RawConfigs, config = ParseCollector(raw), Builds(raw)
    PROVE  \/ config.protocol = "snmp" /\ (Complete <=> ~SnmpSkipped(config))
           \/ config.protocol = "rest" /\ (Complete <=> ~RestSkipped(config))
           \/ config.protocol = "cli" /\ (Complete <=> ~SshSkipped(config))
<1>1. /\ config.concurrency \in Int /\ config.spacing \in Int
      /\ <<config.type, config.protocol>> \in
            {<<"DD", "snmp">>, <<"i6000", "rest">>, <<"ZFS", "rest">>, <<"DXi", "cli">>}
  BY SettingsParsed, RawConfigsAssumption DEF OrDefault, Builds
<1>2. \A setting \in OptionalSettings \cup Secrets :
        config[setting] # ToBeFilled /\ (Unfilled(config[setting]) <=> config[setting] = "")
  BY SettingsParsed DEF Unfilled
<1>3. \A entries : AllGiven(entries) <=> ~AnyEntryUnfilled(entries)
  BY DEF AllGiven, AnyEntryUnfilled, Unfilled
<1>4. \A settings : Given(settings) <=> ~AnyUnfilled(config, settings)
  BY DEF Given, AnyUnfilled, Unfilled
<1>5. \A s \in OptionalSettings \cup Secrets : Given({s}) <=> config[s] # ""
  BY <1>2 DEF Given
<1>limits. /\ config.concurrency > 0 <=> ~(config.concurrency <= 0)
           /\ config.spacing >= 0 <=> ~(config.spacing < 0)
  BY <1>1
<1>6. CASE config.type = "DD"
  BY <1>1, <1>3, <1>4, <1>6 DEF Complete, SnmpSkipped
<1>7. CASE config.type = "i6000"
  <2>1. Complete <=> /\ Given({"base_url", "username", "password"})
                     /\ config.concurrency > 0 /\ config.spacing >= 0
                     /\ DOMAIN config.endpoints # {} \/ Given({"endpoint"})
                     /\ AllGiven(config.endpoints)
    BY <1>7 DEF Complete
  <2>2. RestSkipped(config) <=> \/ config.concurrency <= 0 \/ config.spacing < 0
                                \/ Unfilled(config.base_url)
                                \/ AnyUnfilled(config, {"username", "password"})
                                \/ AnyEntryUnfilled(config.endpoints)
                                \/ config.endpoint = "" /\ DOMAIN config.endpoints = {}
    BY <1>7 DEF RestSkipped
  <2>3. Given({"base_url", "username", "password"})
          <=> ~Unfilled(config.base_url) /\ ~AnyUnfilled(config, {"username", "password"})
    BY DEF Given, AnyUnfilled, Unfilled
  <2>4. Given({"endpoint"}) <=> config.endpoint # ""
    BY <1>5 DEF OptionalSettings
  <2>5. config.protocol = "rest"
    BY <1>1, <1>7
  <2>6. Complete <=> ~RestSkipped(config)
    BY <1>3, <1>limits, <2>1, <2>2, <2>3, <2>4, Zenon
  <2> QED BY <2>5, <2>6
<1>8. CASE config.type = "ZFS"
  <2>1. Complete <=> /\ Given({"base_url"}) /\ (Given({"token"}) \/ Given({"username", "password"}))
                     /\ config.concurrency > 0 /\ config.spacing >= 0 /\ AllGiven(config.endpoints)
    BY <1>8 DEF Complete
  <2>2. RestSkipped(config) <=> \/ config.concurrency <= 0 \/ config.spacing < 0
                                \/ Unfilled(config.base_url)
                                \/ AnyEntryUnfilled(config.endpoints)
                                \/ config.token = "" /\ (config.username = "" \/ config.password = "")
    BY <1>8 DEF RestSkipped
  <2>3. /\ Given({"base_url"}) <=> ~Unfilled(config.base_url)
        /\ Given({"token"}) <=> config.token # ""
        /\ Given({"username", "password"}) <=> config.username # "" /\ config.password # ""
    BY <1>2 DEF Given, Unfilled, OptionalSettings, Secrets
  <2>4. config.protocol = "rest"
    BY <1>1, <1>8
  <2>5. Complete <=> ~RestSkipped(config)
    BY <1>3, <1>limits, <2>1, <2>2, <2>3, Zenon
  <2> QED BY <2>4, <2>5
<1>9. CASE config.type = "DXi"
  <2>1. /\ Given({"host", "username"}) <=> ~AnyUnfilled(config, {"host", "username"})
        /\ Given({"jump_username", "ssh_known_hosts_path"})
              <=> ~AnyUnfilled(config, {"jump_username", "ssh_known_hosts_path"})
    BY <1>4
  <2>2. /\ Given({"password"}) <=> config.password # ""
        /\ Given({"ssh_key_path"}) <=> config.ssh_key_path # ""
        /\ Given({"jump_host"}) <=> config.jump_host # ""
        /\ Given({"jump_ssh_key_path"}) <=> config.jump_ssh_key_path # ""
    BY <1>5 DEF OptionalSettings, Secrets
  <2>3. config.protocol = "cli"
    BY <1>1, <1>9
  <2> QED BY <1>3, <1>9, <2>1, <2>2, <2>3 DEF Complete, SshSkipped, JumpSkipped
<1> QED BY <1>1, <1>6, <1>7, <1>8, <1>9

\* A collector is skipped exactly when its client misses something or a number is out
\* of range, for every file: parsing leaves no placeholder, and the default of a
\* number that is left out fits those that are given.
THEOREM SkippedIsWhatCannotRun == Spec => []SkipsWhatCannotRun
<1>1. ConfigInv => SkipsWhatCannotRun
  <2> SUFFICES ASSUME ConfigInv
               PROVE  SkipsWhatCannotRun
    OBVIOUS
  <2>1. PICK raw \in RawConfigs : Builds(raw) /\ config = ParseCollector(raw)
    BY DEF ConfigInv
  <2>2. (\A class \in DOMAIN config.schedules : IsValid(config.schedules[class]))
          <=> \A class \in DOMAIN config.schedules :
                 InRange(GivenFor(class), config.schedules[class].interval)
    BY <2>1, SchedulesInRange
  <2> QED BY <2>1, <2>2, CompleteIsRun DEF SkipsWhatCannotRun, Skipped
<1> QED BY <1>1, ConfigIsParsed, PTL
=============================================================================
