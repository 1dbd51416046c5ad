------------------------ MODULE DeviceAnswersProofs ------------------------
(***************************************************************************)
(* What the collections of a device return, for any callers, any           *)
(* configuration and any answers of the appliance.  That no name is lost   *)
(* follows from AnswersInv: the stages of the appliance ask for different  *)
(* names, and an answer adds none to the stages up to its own, so that     *)
(* what a stage was due stays what it was when the next one is asked.      *)
(***************************************************************************)
EXTENDS DeviceRoundsProofs, FiniteSetTheorems

-----------------------------------------------------------------------------
(* The names of the stages.                                                  *)

\* The stage to which a name belongs, by its form.
StageOf(name) ==
    CASE Len(name) = 1 -> 1
      [] Len(name) = 3 -> 4
      [] Len(name) = 2 /\ name[1] = "pool" -> 2
      [] OTHER -> 3

\* The stages of an appliance ask for different names.
LEMMA NamesTellStages ==
    ASSUME NEW class, NEW n \in 1..4, NEW answers, NEW name \in NamesOf(class, n, answers)
    PROVE  StageOf(name) = n
<1>1. CASE n = 1
  BY <1>1 DEF NamesOf, StageOf
<1>2. CASE n = 2
  BY <1>2 DEF NamesOf, DetailNames, StageOf
<1>3. CASE n = 3
  BY <1>3 DEF NamesOf, ProjectNames, StageOf
<1>4. CASE n = 4
  <2>1. name \in ShareNames(answers)
    BY <1>4 DEF NamesOf
  <2>2. PICK kind, p, project : name = <<kind, p, project>>
    BY <2>1 DEF ShareNames
  <2> QED BY <1>4, <2>2 DEF StageOf
<1> QED BY <1>1, <1>2, <1>3, <1>4

\* An answer counts under its name.
LEMMA OverOne ==
    ASSUME NEW answers, NEW name, NEW given, DOMAIN given = {name}
    PROVE  DOMAIN Over(given, answers) = DOMAIN answers \cup {name}
BY DEF Over

\* An answer changes neither the names of its stage nor those of an earlier one.
LEMMA LaterAnswersKeepNames ==
    ASSUME NEW class, NEW n \in 1..4, NEW answers, NEW name, NEW given, DOMAIN given = {name},
           StageOf(name) >= n
    PROVE  NamesOf(class, n, Over(given, answers)) = NamesOf(class, n, answers)
<1> DEFINE more == Over(given, answers)
<1>1. \A other : other # name => Items(more, other) = Items(answers, other)
  BY DEF Over, Items
<1> HIDE DEF more
<1>2. CASE n = 1
  BY <1>2 DEF NamesOf
<1>3. CASE n # 1
  <2>1. name # <<"pools">>
    BY <1>3 DEF StageOf
  <2>2. PoolNames(more) = PoolNames(answers)
    BY <1>1, <2>1 DEF PoolNames
  <2>3. n = 4 => \A pool : Projects(more, pool) = Projects(answers, pool)
    <3> SUFFICES ASSUME n = 4, NEW pool
                 PROVE  Projects(more, pool) = Projects(answers, pool)
      OBVIOUS
    <3>1. name # <<"projects", pool>>
      BY DEF StageOf
    <3> QED BY <1>1, <3>1 DEF Projects
  <2>4. CASE n = 2
    BY <2>2, <2>4 DEF NamesOf, DetailNames
  <2>5. CASE n = 3
    BY <2>2, <2>5 DEF NamesOf, ProjectNames
  <2>6. CASE n = 4
    BY <2>2, <2>3, <2>6 DEF NamesOf, ShareNames
  <2> QED BY <1>3, <2>4, <2>5, <2>6
<1> QED BY <1>2, <1>3 DEF more

-----------------------------------------------------------------------------
(* The accounts of a caller.                                                 *)

\* The names of the first n stages.
NamesUpTo(class, n, answers) == UNION {NamesOf(class, m, answers) : m \in 1..n}

AnsweredNow(c) == {name \in DOMAIN asked[c] : asked[c][name] = "answered"}

\* In a fetch every name of an earlier stage has an answer or an error, and of this
\* stage those have that were answered.
FetchAccounts(c) ==
    LET before == NamesUpTo(Class(c), step[c] - 1, payloads[c])
    IN  /\ step[c] \in 1..Steps(Class(c))
        /\ DOMAIN asked[c] = NamesOf(Class(c), step[c], payloads[c])
        /\ errors[c] \subseteq before
        /\ DOMAIN payloads[c] = (before \ errors[c]) \cup AnsweredNow(c)

\* After it, every name of all stages has one of both.
RestAccounts(c) ==
    LET all == NamesUpTo(Class(c), Steps(Class(c)), payloads[c])
    IN  DOMAIN payloads[c] \cup errors[c] = all /\ DOMAIN payloads[c] \cap errors[c] = {}

\* What a thread has not asked for is what is left.
ThreadAccounts(c) ==
    /\ IsCommand
    /\ DOMAIN payloads[c] \cup todo[c] = ItemsOf /\ DOMAIN payloads[c] \cap todo[c] = {}
    /\ errors[c] \subseteq DOMAIN payloads[c]
    /\ IsShell \/ (errors[c] = {} /\ thread[c] \notin {"exit", "read"})

CallerAccounts(c) ==
    /\ stage[c] \in {"idle", "locking", "login"} => payloads[c] = <<>> /\ errors[c] = {}
    /\ stage[c] \in InSession \cup {"locking"} => IsRest
    /\ stage[c] = "fetching" => FetchAccounts(c)
    /\ stage[c] \in {"logout", "returned"} /\ IsRest => RestAccounts(c)
    /\ stage[c] = "idle" => thread[c] = "none"
    /\ thread[c] = "none" => todo[c] = {} /\ stage[c] # "waiting"
    /\ thread[c] # "none" => ThreadAccounts(c)
    /\ stage[c] = "returned" /\ ~IsRest => thread[c] = "over" /\ todo[c] = {}

OneForEach(f) == DOMAIN f = Callers

AllHaveOne ==
    /\ OneForEach(stage) /\ OneForEach(payloads) /\ OneForEach(errors) /\ OneForEach(step)
    /\ OneForEach(asked) /\ OneForEach(thread) /\ OneForEach(todo)

AnswersInv == AllHaveOne /\ \A c \in Callers : CallerAccounts(c)

\* What the accounts of a caller are about.
accountvars(c) ==
    <<config, stage[c], payloads[c], errors[c], step[c], asked[c], thread[c], todo[c]>>

\* The names and stages follow from the configuration.
LEMMA ConfigDecides ==
    ASSUME config' = config
    PROVE  /\ \A class, n, answers : NamesOf(class, n, answers)' = NamesOf(class, n, answers)
           /\ \A class, n, answers : NamesUpTo(class, n, answers)' = NamesUpTo(class, n, answers)
           /\ \A class : Steps(class)' = Steps(class)
           /\ \A c : Class(c)' = Class(c)
           /\ (IsRest' <=> IsRest) /\ (IsCommand' <=> IsCommand) /\ (IsShell' <=> IsShell)
           /\ (IsLibrary' <=> IsLibrary) /\ ItemsOf' = ItemsOf
<1>1. \A class, n, answers : NamesOf(class, n, answers)' = NamesOf(class, n, answers)
  BY DEF NamesOf, EndpointsFor, Configured
<1>2. \A class, n, answers : NamesUpTo(class, n, answers)' = NamesUpTo(class, n, answers)
  BY <1>1 DEF NamesUpTo
<1>3. (IsRest' <=> IsRest) /\ (IsCommand' <=> IsCommand) /\ (IsShell' <=> IsShell)
      /\ (IsLibrary' <=> IsLibrary) /\ ItemsOf' = ItemsOf
  BY DEF IsRest, IsCommand, IsShell, IsLibrary, ItemsOf
<1>4. \A class : Steps(class)' = Steps(class)
  BY <1>3 DEF Steps
<1>5. \A c : Class(c)' = Class(c)
  BY DEF Class, ActiveClass
<1> QED BY <1>1, <1>2, <1>3, <1>4, <1>5

\* A caller keeps its accounts when others move.
LEMMA AccountsApart ==
    ASSUME NEW c \in Callers, CallerAccounts(c), UNCHANGED accountvars(c)
    PROVE  CallerAccounts(c)'
<1> USE ConfigDecides DEF accountvars
<1>1. FetchAccounts(c) => FetchAccounts(c)'
  BY DEF FetchAccounts, AnsweredNow
<1>2. RestAccounts(c) => RestAccounts(c)'
  BY DEF RestAccounts
<1>3. ThreadAccounts(c) => ThreadAccounts(c)'
  BY DEF ThreadAccounts
<1> QED BY <1>1, <1>2, <1>3 DEF CallerAccounts

-----------------------------------------------------------------------------
(* The steps of a fetch.                                                     *)

\* There are at most four stages.
LEMMA FourStages == \A class : Steps(class) \in 1..4
BY DEF Steps

\* A stage adds its names to those before it, and has none of them.
LEMMA StagesAddUp ==
    ASSUME NEW class, NEW n \in 1..4, NEW answers
    PROVE  /\ NamesUpTo(class, n, answers)
                = NamesUpTo(class, n - 1, answers) \cup NamesOf(class, n, answers)
           /\ NamesUpTo(class, n - 1, answers) \cap NamesOf(class, n, answers) = {}
           /\ NamesUpTo(class, 0, answers) = {}
<1>1. \A name : name \in NamesUpTo(class, n, answers)
                  <=> \E m \in 1..n : name \in NamesOf(class, m, answers)
  BY DEF NamesUpTo
<1>2. \A name : name \in NamesUpTo(class, n - 1, answers)
                  <=> \E m \in 1..n - 1 : name \in NamesOf(class, m, answers)
  BY DEF NamesUpTo
<1>3. 1..n = (1..n - 1) \cup {n} /\ 1..n - 1 \subseteq 1..4 /\ n \notin 1..n - 1
  OBVIOUS
<1>4. \A m \in 1..4 : \A name : name \in NamesOf(class, m, answers) => StageOf(name) = m
  BY NamesTellStages
<1>5. NamesUpTo(class, 0, answers) = {}
  BY DEF NamesUpTo
<1>6. NamesUpTo(class, n, answers)
        = NamesUpTo(class, n - 1, answers) \cup NamesOf(class, n, answers)
  BY <1>1, <1>2, <1>3
<1>7. NamesUpTo(class, n - 1, answers) \cap NamesOf(class, n, answers) = {}
  BY <1>2, <1>3, <1>4
<1> QED BY <1>5, <1>6, <1>7

\* The first stage is asked for.
LEMMA FetchStarts ==
    ASSUME NEW c \in Callers, OneForEach(step), OneForEach(asked), StartFetch(c),
           payloads[c] = <<>>, errors[c] = {}, UNCHANGED <<config, payloads, errors>>
    PROVE  FetchAccounts(c)'
<1>1. step'[c] = 1 /\ asked'[c] = Asking(NamesOf(Class(c), 1, <<>>))
  BY DEF StartFetch, OneForEach
<1>2. DOMAIN asked'[c] = NamesOf(Class(c), 1, <<>>) /\ AnsweredNow(c)' = {}
  BY <1>1 DEF Asking, AnsweredNow
<1>3. NamesUpTo(Class(c), step'[c] - 1, <<>>) = {}
  BY <1>1, StagesAddUp
<1>4. step'[c] \in 1..Steps(Class(c))
  BY <1>1, FourStages
<1>5. DOMAIN <<>> = {}
  OBVIOUS
<1> QED BY <1>1, <1>2, <1>3, <1>4, <1>5, ConfigDecides DEF FetchAccounts

\* A stage is over: what failed joins the errors, and the next one is asked for.
LEMMA FetchGoesOn ==
    ASSUME NEW c \in Callers, OneForEach(step), OneForEach(asked), OneForEach(errors),
           FetchAccounts(c), NextStage(c)
    PROVE  FetchAccounts(c)'
<1> DEFINE class == Class(c)
           before == NamesUpTo(class, step[c] - 1, payloads[c])
           now == NamesOf(class, step[c], payloads[c])
<1>1. /\ step[c] \in 1..4 /\ step[c] + 1 \in 1..Steps(class) /\ step[c] + 1 \in 1..4
      /\ step'[c] = step[c] + 1 /\ step'[c] - 1 = step[c]
  BY FourStages DEF FetchAccounts, NextStage, OneForEach
<1>2. errors'[c] = errors[c] \cup FailedNow(c)
  BY DEF NextStage, MergedErrors, OneForEach
<1>3. DOMAIN asked'[c] = NamesOf(class, step'[c], payloads[c]) /\ AnsweredNow(c)' = {}
  BY <1>1 DEF NextStage, Asking, AnsweredNow, OneForEach
<1>4. now = FailedNow(c) \cup AnsweredNow(c) /\ FailedNow(c) \cap AnsweredNow(c) = {}
  BY DEF FetchAccounts, NextStage, Settled, FailedNow, AnsweredNow
<1>5. before \cap now = {} /\ NamesUpTo(class, step[c], payloads[c]) = before \cup now
  BY <1>1, StagesAddUp
<1>6. errors[c] \subseteq before /\ DOMAIN payloads[c] = (before \ errors[c]) \cup AnsweredNow(c)
  BY DEF FetchAccounts
<1>7. UNCHANGED <<config, payloads>>
  BY DEF NextStage
<1> HIDE DEF before, now, class
<1>8. /\ errors'[c] \subseteq before \cup now
      /\ DOMAIN payloads[c] = (before \cup now) \ errors'[c]
  BY <1>2, <1>4, <1>5, <1>6
<1> USE DEF before, now, class
<1> QED BY <1>1, <1>3, <1>5, <1>7, <1>8, ConfigDecides DEF FetchAccounts

\* The last one is over.
LEMMA FetchIsAccounted ==
    ASSUME NEW c \in Callers, OneForEach(errors), FetchAccounts(c), FetchReturns(c)
    PROVE  RestAccounts(c)'
<1> DEFINE class == Class(c)
           before == NamesUpTo(class, step[c] - 1, payloads[c])
           now == NamesOf(class, step[c], payloads[c])
<1>1. step[c] \in 1..4 /\ step[c] = Steps(class)
  BY FourStages DEF FetchAccounts, FetchReturns
<1>2. errors'[c] = errors[c] \cup FailedNow(c)
  BY DEF FetchReturns, MergedErrors, OneForEach
<1>3. now = FailedNow(c) \cup AnsweredNow(c) /\ FailedNow(c) \cap AnsweredNow(c) = {}
  BY DEF FetchAccounts, FetchReturns, Settled, FailedNow, AnsweredNow
<1>4. before \cap now = {} /\ NamesUpTo(class, step[c], payloads[c]) = before \cup now
  BY <1>1, StagesAddUp
<1>5. errors[c] \subseteq before /\ DOMAIN payloads[c] = (before \ errors[c]) \cup AnsweredNow(c)
  BY DEF FetchAccounts
<1>6. UNCHANGED <<config, payloads>>
  BY DEF FetchReturns
<1> HIDE DEF before, now, class
<1>7. DOMAIN payloads[c] \cup errors'[c] = before \cup now /\ DOMAIN payloads[c] \cap errors'[c] = {}
  BY <1>2, <1>3, <1>4, <1>5
<1> USE DEF before, now, class
<1> QED BY <1>1, <1>4, <1>6, <1>7, ConfigDecides DEF RestAccounts

\* A request is sent, fails, or is answered: then its name is accounted for.
LEMMA FetchRequest ==
    ASSUME NEW c \in Callers, OneForEach(asked), OneForEach(payloads), FetchAccounts(c),
           NEW name \in DOMAIN asked[c],
           SendGet(c, name) \/ GetAnswered(c, name) \/ GetFails(c, name)
    PROVE  FetchAccounts(c)'
<1>1. UNCHANGED <<config, errors, step>>
  BY DEF SendGet, GetAnswered, GetFails, callvars
<1>2. PICK now : asked' = [asked EXCEPT ![c][name] = now]
  BY DEF SendGet, GetAnswered, GetFails
<1>3. DOMAIN asked'[c] = DOMAIN asked[c] /\ \A x \in DOMAIN asked[c] \ {name} : asked'[c][x] = asked[c][x]
  BY <1>2 DEF OneForEach
<1>4. CASE GetAnswered(c, name)
  <2>1. AnsweredNow(c)' = AnsweredNow(c) \cup {name}
    BY <1>3, <1>4 DEF GetAnswered, AnsweredNow, OneForEach
  <2>2. PICK given : DOMAIN given = {name} /\ payloads'[c] = Over(given, payloads[c])
    BY <1>4 DEF GetAnswered, Answer, OneForEach
  <2>3. step[c] \in 1..4 /\ StageOf(name) = step[c]
    BY FourStages, NamesTellStages DEF FetchAccounts
  <2>4. \A n \in 1..step[c] : NamesOf(Class(c), n, payloads'[c]) = NamesOf(Class(c), n, payloads[c])
    <3> SUFFICES ASSUME NEW n \in 1..step[c]
                 PROVE  NamesOf(Class(c), n, payloads'[c]) = NamesOf(Class(c), n, payloads[c])
      OBVIOUS
    <3>1. n \in 1..4 /\ StageOf(name) >= n
      BY <2>3
    <3>2. NamesOf(Class(c), n, Over(given, payloads[c])) = NamesOf(Class(c), n, payloads[c])
      <4>1. DOMAIN given = {name}
        BY <2>2
      <4> QED BY <3>1, <4>1, LaterAnswersKeepNames, Zenon
    <3> QED BY <2>2, <3>2
  <2>5. 1..step[c] - 1 \subseteq 1..step[c] /\ step[c] \in 1..step[c]
    BY <2>3
  <2>6. NamesUpTo(Class(c), step[c] - 1, payloads'[c]) = NamesUpTo(Class(c), step[c] - 1, payloads[c])
    BY <2>4, <2>5 DEF NamesUpTo
  <2>7. DOMAIN payloads'[c] = DOMAIN payloads[c] \cup {name}
    <3>1. DOMAIN Over(given, payloads[c]) = DOMAIN payloads[c] \cup {name}
      BY <2>2, OverOne, Zenon
    <3> QED BY <2>2, <3>1
  <2> QED BY <1>1, <1>3, <2>1, <2>4, <2>5, <2>6, <2>7, ConfigDecides DEF FetchAccounts
<1>5. CASE SendGet(c, name) \/ GetFails(c, name)
  <2>1. AnsweredNow(c)' = AnsweredNow(c) /\ payloads' = payloads
    BY <1>3, <1>5 DEF SendGet, GetFails, AnsweredNow, OneForEach, callvars
  <2> QED BY <1>1, <1>3, <2>1, ConfigDecides DEF FetchAccounts
<1> QED BY <1>4, <1>5

-----------------------------------------------------------------------------
(* Every step.                                                               *)

\* AnswersInv holds before any caller begins.
LEMMA AnswersInit == Init => AnswersInv
<1>1. DOMAIN <<>> = {}
  OBVIOUS
<1> QED BY <1>1 DEF Init, CallsInit, RestInit, CommandInit, AnswersInv, AllHaveOne, OneForEach,
                    CallerAccounts, InSession

\* A step of one caller keeps AnswersInv when it keeps the accounts of that caller.
LEMMA AnswersOfOne ==
    ASSUME AnswersInv, NEW c \in Callers, AllHaveOne', CallerAccounts(c)',
           \A d \in Callers \ {c} : UNCHANGED accountvars(d)
    PROVE  AnswersInv'
<1>1. \A d \in Callers \ {c} : CallerAccounts(d)'
  BY AccountsApart DEF AnswersInv
<1> QED BY <1>1 DEF AnswersInv

\* A caller begins with no accounts.
LEMMA AnswersBegin ==
    ASSUME AnswersInv, NEW c \in Callers, Begin(c)
    PROVE  AnswersInv'
<1> USE DEF AnswersInv, AllHaveOne, OneForEach
<1>1. /\ AllHaveOne' /\ \A d \in Callers \ {c} : UNCHANGED accountvars(d)
      /\ UNCHANGED <<config, payloads, errors>>
  BY DEF Begin, SkipCollect, BeginFetch, StartThread, Move, StartFetch, Advance, accountvars,
         restvars, commandvars
<1>2. /\ stage[c] = "idle" /\ payloads[c] = <<>> /\ errors[c] = {} /\ thread[c] = "none"
      /\ todo[c] = {}
  BY DEF Begin, SkipCollect, BeginFetch, StartThread, Move, CallerAccounts
<1>3. CASE SkipCollect(c) /\ UNCHANGED <<restvars, commandvars>>
  <2>1. CallerAccounts(c)'
    BY <1>1, <1>2, <1>3 DEF SkipCollect, Move, CallerAccounts, InSession, commandvars
  <2> QED BY <1>1, <2>1, AnswersOfOne
<1>4. CASE BeginFetch(c) /\ UNCHANGED commandvars
  <2>1. IsRest /\ IsRest'
    BY <1>1, <1>4, ConfigDecides DEF BeginFetch
  <2>2. thread'[c] = "none" /\ todo'[c] = {}
    BY <1>2, <1>4 DEF commandvars
  <2>3. CASE IsLibrary
    <3>1. stage'[c] = "locking"
      BY <1>4, <2>3 DEF BeginFetch, Move
    <3>2. CallerAccounts(c)'
      BY <1>1, <1>2, <2>1, <2>2, <3>1 DEF CallerAccounts
    <3> QED BY <1>1, <3>2, AnswersOfOne
  <2>4. CASE ~IsLibrary
    <3>1. stage'[c] = "fetching" /\ StartFetch(c)
      BY <1>4, <2>4 DEF BeginFetch, Move
    <3>2. FetchAccounts(c)'
      BY <1>1, <1>2, <3>1, FetchStarts
    <3>3. CallerAccounts(c)'
      BY <2>1, <2>2, <3>1, <3>2 DEF CallerAccounts
    <3> QED BY <1>1, <3>3, AnswersOfOne
  <2> QED BY <2>3, <2>4
<1>5. CASE StartThread(c) /\ UNCHANGED restvars
  <2>1. /\ stage'[c] = "waiting" /\ thread'[c] \in {"next", "jump", "connect"}
        /\ todo'[c] = ItemsOf /\ IsCommand
    BY <1>5 DEF StartThread, Move, Advance
  <2>2. ThreadAccounts(c)'
    BY <1>1, <1>2, <2>1, ConfigDecides DEF ThreadAccounts
  <2>3. CallerAccounts(c)'
    BY <2>1, <2>2 DEF CallerAccounts, InSession
  <2> QED BY <1>1, <2>3, AnswersOfOne
<1> QED BY <1>3, <1>4, <1>5 DEF Begin

\* A step of a caller who fetches.
LEMMA AnswersRestStep ==
    ASSUME AnswersInv, OpenInv, NEW c \in Callers, RestStep(c), UNCHANGED commandvars
    PROVE  AnswersInv'
<1> USE DEF AnswersInv, AllHaveOne, OneForEach
<1>1. AllHaveOne' /\ \A d \in Callers \ {c} : UNCHANGED accountvars(d)
  <2>1. ASSUME NEW name \in DOMAIN asked[c],
               SendGet(c, name) \/ GetAnswered(c, name) \/ GetFails(c, name)
        PROVE  AllHaveOne' /\ \A d \in Callers \ {c} : UNCHANGED accountvars(d)
    BY <2>1 DEF SendGet, GetAnswered, GetFails, Answer, callvars, accountvars, commandvars
  <2>2. ASSUME TakeSession(c) \/ LoginAnswered(c) \/ LoginFails(c) \/ NextStage(c)
        PROVE  AllHaveOne' /\ \A d \in Callers \ {c} : UNCHANGED accountvars(d)
    BY <2>2 DEF TakeSession, LoginAnswered, LoginFails, NextStage, Move, StartFetch, accountvars,
                commandvars
  <2>3. ASSUME FetchReturns(c) \/ LogoutAnswered(c) \/ LogoutLost(c)
        PROVE  AllHaveOne' /\ \A d \in Callers \ {c} : UNCHANGED accountvars(d)
    BY <2>3 DEF FetchReturns, LogoutAnswered, LogoutLost, accountvars, commandvars
  <2> QED BY <2>1, <2>2, <2>3 DEF RestStep
<1>2. config' = config /\ thread'[c] = thread[c] /\ todo'[c] = todo[c] /\ (IsRest' <=> IsRest)
  <2>1. config' = config
    BY DEF RestStep, TakeSession, LoginAnswered, LoginFails, SendGet, GetAnswered, GetFails,
           NextStage, FetchReturns, LogoutAnswered, LogoutLost, callvars
  <2> QED BY <2>1, ConfigDecides DEF commandvars
<1>3. stage[c] \in InSession \cup {"locking"}
  BY DEF OpenInv, RestStep, TakeSession, LoginAnswered, LoginFails, NextStage, FetchReturns,
         LogoutAnswered, LogoutLost, AfterLogout, Move, Settled, InSession
<1>4. IsRest /\ IsRest' /\ thread[c] = "none" /\ todo[c] = {}
  BY <1>2, <1>3 DEF CallerAccounts, ThreadAccounts, IsRest, IsCommand
<1>5. CASE TakeSession(c) \/ LoginFails(c)
  <2>1. stage'[c] \in {"login", "failed"} /\ payloads'[c] = <<>> /\ errors'[c] = {}
    BY <1>5 DEF TakeSession, LoginFails, Move, CallerAccounts
  <2>2. CallerAccounts(c)'
    BY <1>2, <1>4, <2>1 DEF CallerAccounts
  <2> QED BY <1>1, <2>2, AnswersOfOne
<1>6. CASE LoginAnswered(c)
  <2>1. /\ stage'[c] = "fetching" /\ StartFetch(c) /\ UNCHANGED <<payloads, errors>>
        /\ payloads[c] = <<>> /\ errors[c] = {}
    BY <1>6 DEF LoginAnswered, Move, CallerAccounts
  <2>2. FetchAccounts(c)'
    BY <1>2, <2>1, FetchStarts
  <2>3. CallerAccounts(c)'
    BY <1>2, <1>4, <2>1, <2>2 DEF CallerAccounts
  <2> QED BY <1>1, <2>3, AnswersOfOne
<1>7. ASSUME NEW name \in DOMAIN asked[c],
             SendGet(c, name) \/ GetAnswered(c, name) \/ GetFails(c, name)
      PROVE  AnswersInv'
  <2>1. stage[c] = "fetching" /\ stage' = stage
    BY <1>7 DEF OpenInv, SendGet, GetAnswered, GetFails, callvars
  <2>2. FetchAccounts(c)'
    BY <1>7, <2>1, FetchRequest DEF CallerAccounts
  <2>3. CallerAccounts(c)'
    BY <1>2, <1>4, <2>1, <2>2 DEF CallerAccounts
  <2> QED BY <1>1, <2>3, AnswersOfOne
<1>8. CASE NextStage(c)
  <2>1. stage[c] = "fetching" /\ stage' = stage
    BY <1>8 DEF NextStage, Settled
  <2>2. FetchAccounts(c)'
    BY <1>8, <2>1, FetchGoesOn DEF CallerAccounts
  <2>3. CallerAccounts(c)'
    BY <1>2, <1>4, <2>1, <2>2 DEF CallerAccounts
  <2> QED BY <1>1, <2>3, AnswersOfOne
<1>9. CASE FetchReturns(c)
  <2>1. stage[c] = "fetching" /\ stage'[c] \in {"logout", "failed", "returned"}
    BY <1>9 DEF FetchReturns, Settled
  <2>2. RestAccounts(c)'
    BY <1>9, <2>1, FetchIsAccounted DEF CallerAccounts
  <2>3. CallerAccounts(c)'
    BY <1>2, <1>4, <2>1, <2>2 DEF CallerAccounts
  <2> QED BY <1>1, <2>3, AnswersOfOne
<1>10. CASE LogoutAnswered(c) \/ LogoutLost(c)
  <2>1. /\ \/ stage[c] = "logout" /\ stage'[c] = "returned"
           \/ stage'[c] = "cancelled"
        /\ UNCHANGED <<payloads, errors, step, asked>>
    BY <1>10 DEF LogoutAnswered, LogoutLost, AfterLogout
  <2>2. stage'[c] = "returned" => RestAccounts(c)'
    BY <1>2, <1>4, <2>1, ConfigDecides DEF CallerAccounts, RestAccounts
  <2>3. CallerAccounts(c)'
    BY <1>2, <1>4, <2>1, <2>2 DEF CallerAccounts, InSession
  <2> QED BY <1>1, <2>3, AnswersOfOne
<1> QED BY <1>5, <1>6, <1>7, <1>8, <1>9, <1>10 DEF RestStep

\* A step of the thread of a caller: what it reads is no longer left.
LEMMA AnswersCommandStep ==
    ASSUME AnswersInv, NEW c \in Callers, CommandStep(c) \/ LosesConnection(c),
           UNCHANGED restvars
    PROVE  AnswersInv'
<1> USE DEF AnswersInv, AllHaveOne, OneForEach
<1>1. AllHaveOne' /\ \A d \in Callers \ {c} : UNCHANGED accountvars(d)
  <2>1. ASSUME Connects(c) \/ Executes(c) \/ Exits(c) \/ Raises(c) \/ LosesConnection(c)
        PROVE  AllHaveOne' /\ \A d \in Callers \ {c} : UNCHANGED accountvars(d)
    BY <2>1 DEF Connects, Executes, Exits, Raises, LosesConnection, Advance, callvars, restvars,
                accountvars
  <2>2. ASSUME Reads(c) \/ Gets(c) \/ ThreadEnds(c)
        PROVE  AllHaveOne' /\ \A d \in Callers \ {c} : UNCHANGED accountvars(d)
    BY <2>2 DEF Reads, Gets, ThreadEnds, Answer, Advance, restvars, accountvars
  <2> QED BY <2>1, <2>2 DEF CommandStep
<1>2. config' = config /\ (IsRest' <=> IsRest) /\ (IsShell' <=> IsShell)
  BY ConfigDecides
     DEF CommandStep, Connects, Executes, Exits, Reads, Gets, Raises, ThreadEnds, LosesConnection,
         callvars
<1>3. thread[c] # "none" /\ thread[c] # "over" /\ thread'[c] # "none"
  BY DEF CommandStep, Connects, Executes, Exits, Reads, Gets, Raises, ThreadEnds, LosesConnection,
         Advance, NextLink
<1>4. ThreadAccounts(c) /\ ~IsRest /\ stage[c] # "idle" /\ stage[c] # "returned"
  BY <1>3 DEF CallerAccounts, ThreadAccounts, IsRest, IsCommand
<1>5. stage[c] \notin InSession \cup {"locking"}
  BY <1>4 DEF CallerAccounts
<1>6. CASE Reads(c) \/ Gets(c)
  <2>1. PICK name, given :
          /\ name \in todo[c]
          /\ DOMAIN given = {name} /\ payloads'[c] = Over(given, payloads[c])
          /\ todo'[c] = todo[c] \ {name}
          /\ errors'[c] \in {errors[c], errors[c] \cup {name}}
          /\ IsShell \/ errors'[c] = errors[c]
    <3>1. CASE Reads(c)
      <4>1. IsShell
        BY <1>4, <3>1 DEF Reads, Advance, ThreadAccounts
      <4>2. PICK name \in todo[c], status \in {"failed", "done", "no tickets"} :
              /\ todo' = [todo EXCEPT ![c] = @ \ {name}]
              /\ Answer(c, name, {})
              /\ errors' = [errors EXCEPT ![c] = IF status = "failed" THEN @ \cup {name} ELSE @]
        BY <3>1 DEF Reads, Statuses
      <4>3. payloads'[c] = Over([n \in {name} |-> {}], payloads[c])
        BY <4>2 DEF Answer
      <4>4. todo'[c] = todo[c] \ {name} /\ errors'[c] \in {errors[c], errors[c] \cup {name}}
        BY <4>2
      <4> WITNESS name, [n \in {name} |-> {}]
      <4> QED BY <4>1, <4>2, <4>3, <4>4
    <3>2. CASE Gets(c)
      <4>1. PICK name \in todo[c] :
              /\ todo' = [todo EXCEPT ![c] = @ \ {name}]
              /\ Answer(c, name, {})
        BY <3>2 DEF Gets
      <4>2. payloads'[c] = Over([n \in {name} |-> {}], payloads[c])
        BY <4>1 DEF Answer
      <4>3. todo'[c] = todo[c] \ {name} /\ errors'[c] = errors[c]
        BY <3>2, <4>1 DEF Gets
      <4> WITNESS name, [n \in {name} |-> {}]
      <4> QED BY <4>1, <4>2, <4>3
    <3> QED BY <1>6, <3>1, <3>2
  <2>2. DOMAIN payloads'[c] = DOMAIN payloads[c] \cup {name}
    <3>1. DOMAIN Over(given, payloads[c]) = DOMAIN payloads[c] \cup {name}
      BY <2>1, OverOne, Zenon
    <3> QED BY <2>1, <3>1
  <2>3. ThreadAccounts(c)'
    <3>1. thread'[c] \in {thread[c], "next"}
      BY <1>6 DEF Reads, Gets, Advance
    <3> QED BY <1>2, <1>4, <2>1, <2>2, <3>1, ConfigDecides DEF ThreadAccounts
  <2>4. stage' = stage
    BY <1>6 DEF Reads, Gets
  <2>5. CallerAccounts(c)'
    BY <1>2, <1>3, <1>4, <1>5, <2>3, <2>4 DEF CallerAccounts, InSession
  <2> QED BY <1>1, <2>5, AnswersOfOne
<1>7. ASSUME ~(Reads(c) \/ Gets(c))
      PROVE  AnswersInv'
  <2>1. UNCHANGED <<payloads, errors, todo>>
    BY <1>7
       DEF CommandStep, Connects, Executes, Exits, Raises, ThreadEnds, LosesConnection, callvars
  <2>2. ThreadAccounts(c)'
    <3>1. thread'[c] \in {"exit", "read"} => IsShell
      BY <1>4, <1>7
         DEF CommandStep, Connects, Executes, Exits, Raises, ThreadEnds, LosesConnection, Advance,
             NextLink, ThreadAccounts
    <3> QED BY <1>2, <1>4, <2>1, <3>1, ConfigDecides DEF ThreadAccounts
  <2>3. \/ stage' = stage
        \/ stage'[c] = "failed"
        \/ stage'[c] = "returned" /\ thread'[c] = "over" /\ todo'[c] = {}
    BY <1>7, <2>1
       DEF CommandStep, Connects, Executes, Exits, Raises, ThreadEnds, LosesConnection, callvars
  <2>4. CallerAccounts(c)'
    BY <1>2, <1>3, <1>4, <1>5, <2>2, <2>3 DEF CallerAccounts, InSession
  <2> QED BY <1>1, <2>4, AnswersOfOne
<1> QED BY <1>6, <1>7

\* The stop and close() end collections, and complete none but a library's at its logout.
LEMMA AnswersProcess ==
    ASSUME AnswersInv, RestProcess, UNCHANGED commandvars
    PROVE  AnswersInv'
<1> USE DEF AnswersInv, AllHaveOne, OneForEach
<1>1. UNCHANGED <<config, payloads, errors, step, thread, todo>>
  BY DEF RestProcess, Stop, CloseBegins, CloseEnds, commandvars
<1>2. AllHaveOne'
  BY <1>1 DEF RestProcess, Stop, CloseBegins, CloseEnds
<1> SUFFICES ASSUME NEW c \in Callers
             PROVE  CallerAccounts(c)'
  BY <1>2
<1>3. CASE UNCHANGED <<stage[c], asked[c]>>
  BY <1>1, <1>3, AccountsApart DEF accountvars
<1>4. ThreadAccounts(c) => ThreadAccounts(c)'
  BY <1>1, ConfigDecides DEF ThreadAccounts
<1>5. RestAccounts(c) => RestAccounts(c)'
  BY <1>1, ConfigDecides DEF RestAccounts
<1>6. (IsRest' <=> IsRest) /\ thread'[c] = thread[c] /\ todo'[c] = todo[c]
  BY <1>1, ConfigDecides
<1>7. CASE Stop /\ c \in Stoppable
  <2>1. stage'[c] = AfterCancel(stage[c])
    BY <1>7 DEF Stop
  <2>2. CASE stage[c] \in Ended
    <3>1. stage'[c] = stage[c]
      BY <2>1, <2>2, Zenon DEF AfterCancel, Ended
    <3> QED BY <1>1, <1>4, <1>5, <1>6, <2>2, <3>1 DEF CallerAccounts, Ended, InSession
  <2>3. CASE stage[c] \notin Ended
    <3>1. stage'[c] = "cancelled" \/ (stage'[c] = "leaving" /\ stage[c] = "fetching")
      BY <2>1, <2>3 DEF AfterCancel
    <3> QED BY <1>1, <1>4, <1>6, <2>3, <3>1 DEF CallerAccounts, InSession, Ended
  <2> QED BY <2>2, <2>3
<1>8. CASE CloseBegins
  <2>1. /\ stage[c] = "login" => stage'[c] = "failed"
        /\ stage[c] = "logout" => stage'[c] = "returned"
        /\ stage[c] \notin {"login", "logout"} => stage'[c] = stage[c]
    BY <1>8 DEF CloseBegins
  <2>2. DOMAIN asked'[c] = DOMAIN asked[c] /\ AnsweredNow(c)' = AnsweredNow(c)
    BY <1>8 DEF CloseBegins, AnsweredNow
  <2>3. FetchAccounts(c) => FetchAccounts(c)'
    BY <1>1, <2>2, ConfigDecides DEF FetchAccounts
  <2>4. CASE stage[c] = "login"
    BY <1>1, <1>4, <1>6, <2>1, <2>4 DEF CallerAccounts, InSession
  <2>5. CASE stage[c] = "logout"
    BY <1>1, <1>4, <1>5, <1>6, <2>1, <2>5 DEF CallerAccounts, InSession
  <2>6. CASE stage[c] \notin {"login", "logout"}
    BY <1>1, <1>4, <1>5, <1>6, <2>1, <2>3, <2>6 DEF CallerAccounts, InSession
  <2> QED BY <2>4, <2>5, <2>6
<1>9. CASE CloseEnds
  BY <1>3, <1>9 DEF CloseEnds
<1>10. CASE Stop /\ c \notin Stoppable
  BY <1>3, <1>10 DEF Stop
<1> QED BY <1>7, <1>8, <1>9, <1>10 DEF RestProcess

\* Every step keeps AnswersInv.
LEMMA AnswersNext == AnswersInv /\ OpenInv /\ [Next]_vars => AnswersInv'
<1> SUFFICES ASSUME AnswersInv, OpenInv, [Next]_vars
             PROVE  AnswersInv'
  OBVIOUS
<1>1. CASE UNCHANGED vars
  <2>1. \A c \in Callers : UNCHANGED accountvars(c)
    BY <1>1 DEF vars, callvars, restvars, commandvars, accountvars
  <2>2. AllHaveOne'
    BY <1>1 DEF AnswersInv, AllHaveOne, OneForEach, vars, callvars, restvars, commandvars
  <2> QED BY <2>1, <2>2, AccountsApart DEF AnswersInv
<1>2. ASSUME NEW c \in Callers, Collecting(c) \/ Loses(c)
      PROVE  AnswersInv'
  BY <1>2, AnswersRestStep, AnswersCommandStep DEF Collecting, Loses
<1> QED BY <1>1, <1>2, AnswersBegin, AnswersProcess DEF Next, Process

\* A result accounts for every name that was due: a stage of the appliance is due
\* what the answers before it listed, and each name joins the answers or the errors.
THEOREM NoNameIsLost == Spec => []NamesAreAccounted
<1>1. AnswersInv => NamesAreAccounted
  <2> SUFFICES ASSUME AnswersInv, NEW c \in Callers, stage[c] = "returned"
               PROVE  /\ DOMAIN payloads[c] \cup errors[c] = Due(c)
                      /\ IsRest => DOMAIN payloads[c] \cap errors[c] = {}
                      /\ IsShell => DOMAIN payloads[c] = Due(c)
                      /\ config.protocol = "snmp" => errors[c] = {}
    BY DEF NamesAreAccounted
  <2>1. CallerAccounts(c)
    BY DEF AnswersInv
  <2>2. CASE IsRest
    <3>1. RestAccounts(c) /\ ~IsShell /\ config.protocol # "snmp"
      BY <2>1, <2>2 DEF CallerAccounts, IsRest, IsShell
    <3> QED BY <2>2, <3>1 DEF RestAccounts, Due, NamesUpTo
  <2>3. CASE ~IsRest
    <3>1. ThreadAccounts(c) /\ todo[c] = {}
      BY <2>1, <2>3 DEF CallerAccounts
    <3> QED BY <2>3, <3>1 DEF ThreadAccounts, Due, IsShell
  <2> QED BY <2>2, <2>3
<1> QED BY <1>1, AnswersInit, AnswersNext, OpenInit, OpenNext, PTL DEF Spec

-----------------------------------------------------------------------------
(* The semaphore.                                                            *)

\* The requests in flight are finite, and no more than the semaphore admits.
SlotsInv ==
    /\ config.concurrency \in Int /\ IsFiniteSet(InFlight)
    /\ InFlight # {} => Cardinality(InFlight) <= config.concurrency

\* No step but the sending of a request puts one in flight.
LEMMA SlotsKept ==
    ASSUME SlotsInv, config' = config,
           \A c \in Callers : \A name \in DOMAIN asked'[c] :
              asked'[c][name] = "sent" => name \in DOMAIN asked[c] /\ asked[c][name] = "sent"
    PROVE  SlotsInv'
<1>1. InFlight' \subseteq InFlight
  BY DEF InFlight, Sent
<1>2. IsFiniteSet(InFlight') /\ Cardinality(InFlight') <= Cardinality(InFlight)
  BY <1>1, FS_Subset DEF SlotsInv
<1>3. Cardinality(InFlight) \in Int /\ Cardinality(InFlight') \in Int
  BY <1>2, FS_CardinalityType DEF SlotsInv
<1> QED BY <1>1, <1>2, <1>3 DEF SlotsInv

\* A request is sent when there is a slot.
LEMMA SlotsTaken ==
    ASSUME SlotsInv, OneForEach(asked), NEW c \in Callers, NEW name \in DOMAIN asked[c],
           SendGet(c, name)
    PROVE  SlotsInv'
<1>1. config' = config /\ Cardinality(InFlight) < config.concurrency
  BY DEF SendGet, SlotFree, callvars
<1>2. InFlight' \subseteq InFlight \cup {<<c, name>>}
  <2>1. PICK now : asked' = [asked EXCEPT ![c][name] = now]
    BY DEF SendGet
  <2> SUFFICES ASSUME NEW d \in Callers, NEW other \in DOMAIN asked'[d], asked'[d][other] = "sent"
               PROVE  <<d, other>> \in InFlight \cup {<<c, name>>}
    BY DEF InFlight, Sent
  <2>2. CASE d = c /\ other = name
    BY <2>2
  <2>3. CASE ~(d = c /\ other = name)
    <3>1. other \in DOMAIN asked[d] /\ asked[d][other] = "sent"
      BY <2>1, <2>3 DEF OneForEach
    <3> QED BY <3>1 DEF InFlight, Sent
  <2> QED BY <2>2, <2>3
<1>3. /\ IsFiniteSet(InFlight \cup {<<c, name>>})
      /\ Cardinality(InFlight \cup {<<c, name>>}) <= Cardinality(InFlight) + 1
      /\ Cardinality(InFlight) \in Int
  <2>1. IsFiniteSet(InFlight)
    BY DEF SlotsInv
  <2>2. Cardinality(InFlight) \in Nat
    BY <2>1, FS_CardinalityType
  <2>3. /\ IsFiniteSet(InFlight \cup {<<c, name>>})
        /\ Cardinality(InFlight \cup {<<c, name>>})
             = IF <<c, name>> \in InFlight THEN Cardinality(InFlight) ELSE Cardinality(InFlight) + 1
    BY <2>1, FS_AddElement
  <2> QED BY <2>2, <2>3
<1>4. /\ IsFiniteSet(InFlight')
      /\ Cardinality(InFlight') <= Cardinality(InFlight \cup {<<c, name>>})
  BY <1>2, <1>3, FS_Subset
<1>5. Cardinality(InFlight') \in Int /\ Cardinality(InFlight \cup {<<c, name>>}) \in Int
  BY <1>3, <1>4, FS_CardinalityType
<1> QED BY <1>1, <1>3, <1>4, <1>5 DEF SlotsInv

\* Nothing is in flight at first.
LEMMA SlotsInit == Init => SlotsInv
<1> SUFFICES ASSUME Init
             PROVE  SlotsInv
  OBVIOUS
<1>1. DOMAIN <<>> = {}
  OBVIOUS
<1>2. InFlight = {}
  BY <1>1 DEF Init, RestInit, InFlight, Sent
<1>3. config.concurrency \in Int
  BY SettingsParsed, RawConfigsAssumption DEF Init, OrDefault
<1> QED BY <1>2, <1>3, FS_EmptySet DEF SlotsInv

\* Every step keeps the limit.
LEMMA SlotsNext == SlotsInv /\ AnswersInv /\ [Next]_vars => SlotsInv'
<1> SUFFICES ASSUME SlotsInv, AnswersInv, [Next]_vars
             PROVE  SlotsInv'
  OBVIOUS
<1> USE DEF AnswersInv, AllHaveOne, OneForEach
<1>1. ASSUME UNCHANGED <<config, asked>>
      PROVE  SlotsInv'
  BY <1>1, SlotsKept
<1>2. ASSUME NEW c \in Callers, config' = config, NEW names,
             asked' = [asked EXCEPT ![c] = Asking(names)] \/ asked' = [asked EXCEPT ![c] = <<>>]
      PROVE  SlotsInv'
  <2>1. DOMAIN <<>> = {}
    OBVIOUS
  <2>2. \A name \in DOMAIN asked'[c] : asked'[c][name] # "sent"
    BY <1>2, <2>1 DEF Asking
  <2>3. \A d \in Callers \ {c} : asked'[d] = asked[d]
    BY <1>2
  <2> QED BY <1>2, <2>2, <2>3, SlotsKept
<1>3. ASSUME NEW c \in Callers, Begin(c)
      PROVE  SlotsInv'
  BY <1>1, <1>2, <1>3 DEF Begin, SkipCollect, BeginFetch, StartThread, StartFetch, restvars
<1>4. ASSUME NEW c \in Callers, CommandStep(c) \/ LosesConnection(c), UNCHANGED restvars
      PROVE  SlotsInv'
  BY <1>1, <1>4
     DEF CommandStep, Connects, Executes, Exits, Reads, Gets, Raises, ThreadEnds, LosesConnection,
         callvars, restvars
<1>5. ASSUME NEW c \in Callers, RestStep(c)
      PROVE  SlotsInv'
  <2>1. CASE TakeSession(c) \/ LoginFails(c) \/ LogoutAnswered(c) \/ LogoutLost(c)
    BY <1>1, <2>1 DEF TakeSession, LoginFails, LogoutAnswered, LogoutLost
  <2>2. CASE LoginAnswered(c) \/ NextStage(c) \/ FetchReturns(c)
    BY <1>2, <2>2 DEF LoginAnswered, StartFetch, NextStage, FetchReturns
  <2>3. ASSUME NEW name \in DOMAIN asked[c], GetAnswered(c, name) \/ GetFails(c, name)
        PROVE  SlotsInv'
    <3>1. PICK now \in {"answered", "failed"} : asked' = [asked EXCEPT ![c][name] = now]
      BY <2>3 DEF GetAnswered, GetFails
    <3>2. config' = config
      BY <2>3 DEF GetAnswered, GetFails, callvars
    <3>3. \A d \in Callers : \A x \in DOMAIN asked'[d] :
            asked'[d][x] = "sent" => x \in DOMAIN asked[d] /\ asked[d][x] = "sent"
      BY <3>1
    <3> QED BY <3>2, <3>3, SlotsKept
  <2> QED BY <1>5, <2>1, <2>2, <2>3, SlotsTaken DEF RestStep
<1>6. CASE RestProcess
  <2>1. config' = config
    BY <1>6 DEF RestProcess, Stop, CloseBegins, CloseEnds
  <2>2. DOMAIN <<>> = {}
    OBVIOUS
  <2>3. \A d \in Callers : \A x \in DOMAIN asked'[d] :
            asked'[d][x] = "sent" => x \in DOMAIN asked[d] /\ asked[d][x] = "sent"
    <3>1. CASE Stop
      <4> SUFFICES ASSUME NEW d \in Callers, NEW x \in DOMAIN asked'[d], asked'[d][x] = "sent"
                   PROVE  x \in DOMAIN asked[d] /\ asked[d][x] = "sent"
        OBVIOUS
      <4>1. asked'[d] = IF d \in Stoppable THEN <<>> ELSE asked[d]
        BY <3>1 DEF Stop
      <4> QED BY <2>2, <4>1
    <3>2. CASE CloseBegins
      BY <3>2 DEF CloseBegins
    <3>3. CASE CloseEnds
      BY <3>3 DEF CloseEnds
    <3> QED BY <1>6, <3>1, <3>2, <3>3 DEF RestProcess
  <2> QED BY <2>1, <2>3, SlotsKept
<1>7. CASE UNCHANGED vars
  BY <1>1, <1>7 DEF vars, callvars, restvars
<1> QED BY <1>3, <1>4, <1>5, <1>6, <1>7 DEF Next, Collecting, Loses, Process

-----------------------------------------------------------------------------
(* Types.                                                                    *)

\* A caller is skipped when it begins, or never; only a collector that is not
\* skipped has callers that move on.
SkippedInv == \A c \in Callers : stage[c] = "skipped" <=> Skipped(config) /\ stage[c] # "idle"

\* How the stage of a caller may change.
StageMoves(c) ==
    \/ stage'[c] = stage[c]
    \/ stage[c] = "idle" /\ stage'[c] # "idle" /\ (stage'[c] = "skipped" <=> Skipped(config))
    \/ stage[c] \notin {"idle", "skipped"} /\ stage'[c] \notin {"idle", "skipped"}

\* It changes so in every step.
LEMMA StagesMove ==
    ASSUME OneForEach(stage), [Next]_vars
    PROVE  \A c \in Callers : StageMoves(c)
<1> USE DEF OneForEach, StageMoves
<1>1. ASSUME NEW c \in Callers, Begin(c)
      PROVE  \A d \in Callers : StageMoves(d)
  BY <1>1 DEF Begin, SkipCollect, BeginFetch, StartThread, Move
<1>2. ASSUME NEW c \in Callers, RestStep(c)
      PROVE  \A d \in Callers : StageMoves(d)
  BY <1>2 DEF RestStep, TakeSession, LoginAnswered, LoginFails, SendGet, GetAnswered, GetFails,
              NextStage, FetchReturns, LogoutAnswered, LogoutLost, AfterLogout, Settled, Move, callvars
<1>3. ASSUME NEW c \in Callers, CommandStep(c) \/ LosesConnection(c)
      PROVE  \A d \in Callers : StageMoves(d)
  BY <1>3 DEF CommandStep, Connects, Executes, Exits, Reads, Gets, Raises, ThreadEnds,
              LosesConnection, callvars
<1>4. CASE Stop
  <2> SUFFICES ASSUME NEW d \in Callers
               PROVE  StageMoves(d)
    OBVIOUS
  <2>1. CASE stage[d] \in Ended
    <3>1. AfterCancel(stage[d]) = stage[d]
      BY <2>1, Zenon DEF AfterCancel, Ended
    <3> QED BY <1>4, <3>1 DEF Stop
  <2>2. CASE stage[d] \notin Ended
    <3>1. AfterCancel(stage[d]) \in {"leaving", "cancelled"}
      BY <2>2 DEF AfterCancel
    <3> QED BY <1>4, <2>2, <3>1 DEF Stop, Ended
  <2> QED BY <2>1, <2>2
<1>5. CASE CloseBegins
  BY <1>5 DEF CloseBegins
<1>6. CASE CloseEnds \/ UNCHANGED vars
  BY <1>6 DEF CloseEnds, vars, callvars
<1> QED BY <1>1, <1>2, <1>3, <1>4, <1>5, <1>6
        DEF Next, Collecting, Loses, Process, RestProcess

\* The ranges of what a step changes.
RangesInv ==
    /\ thread \in [Callers -> Threads] /\ links \in [Callers -> SUBSET DOMAIN NextLink]
    /\ made \in Nat /\ httpClient \in 0..made /\ opened \subseteq 1..made
    /\ session \in Callers \cup {Nobody}

\* The client property makes the next HTTP client.
LEMMA RangesUse ==
    ASSUME RangesInv, UseClient
    PROVE  made' \in Nat /\ httpClient' \in 0..made' /\ opened' \subseteq 1..made'
<1>1. CASE httpClient # 0
  BY <1>1 DEF RangesInv, UseClient
<1>2. CASE httpClient = 0
  <2>1. made' = made + 1 /\ httpClient' = made + 1 /\ opened' = opened \cup {made + 1}
    BY <1>2 DEF UseClient
  <2>2. made + 1 \in Nat /\ 1..made \subseteq 1..made + 1 /\ made + 1 \in 1..made + 1
    BY DEF RangesInv
  <2> QED BY <2>1, <2>2 DEF RangesInv
<1> QED BY <1>1, <1>2

\* They hold at first and in every step.
LEMMA RangesNext == RangesInv /\ [Next]_vars => RangesInv'
<1> SUFFICES ASSUME RangesInv, [Next]_vars
             PROVE  RangesInv'
  OBVIOUS
<1> USE DEF RangesInv
<1>1. ASSUME NEW c \in Callers, Begin(c)
      PROVE  RangesInv'
  BY <1>1 DEF Begin, SkipCollect, BeginFetch, StartThread, Advance, Threads, restvars, commandvars
<1>2. ASSUME NEW c \in Callers, RestStep(c), UNCHANGED commandvars
      PROVE  RangesInv'
  <2>1. thread' = thread /\ links' = links
    BY <1>2 DEF commandvars
  <2>2. session' \in Callers \cup {Nobody}
    BY <1>2 DEF RestStep, TakeSession, LoginAnswered, LoginFails, SendGet, GetAnswered, GetFails,
                NextStage, FetchReturns, LogoutAnswered, LogoutLost
  <2>3. UseClient \/ UNCHANGED <<made, httpClient, opened>>
    BY <1>2 DEF RestStep, TakeSession, LoginAnswered, LoginFails, SendGet, GetAnswered, GetFails,
                NextStage, FetchReturns, LogoutAnswered, LogoutLost
  <2> QED BY <2>1, <2>2, <2>3, RangesUse
<1>3. ASSUME NEW c \in Callers, CommandStep(c) \/ LosesConnection(c), UNCHANGED restvars
      PROVE  RangesInv'
  <2>1. thread' \in [Callers -> Threads]
    BY <1>3 DEF CommandStep, Connects, Executes, Exits, Reads, Gets, Raises, ThreadEnds,
                LosesConnection, Advance, NextLink, Threads
  <2>2. links' \in [Callers -> SUBSET DOMAIN NextLink]
    BY <1>3 DEF CommandStep, Connects, Executes, Exits, Reads, Gets, Raises, ThreadEnds,
                LosesConnection, LinksLeft
  <2> QED BY <1>3, <2>1, <2>2 DEF restvars
<1>4. CASE RestProcess /\ UNCHANGED commandvars
  <2>1. session' \in Callers \cup {Nobody}
    BY <1>4, CallersAssumption DEF RestProcess, Stop, CloseBegins, CloseEnds, CutOff
  <2>2. UNCHANGED <<thread, links, made>> /\ opened' \subseteq opened
    BY <1>4 DEF RestProcess, Stop, CloseBegins, CloseEnds, commandvars
  <2>3. httpClient' \in {httpClient, 0}
    BY <1>4 DEF RestProcess, Stop, CloseBegins, CloseEnds
  <2>4. 0 \in 0..made
    OBVIOUS
  <2> QED BY <2>1, <2>2, <2>3, <2>4
<1>5. CASE UNCHANGED vars
  BY <1>5 DEF vars, restvars, commandvars
<1> QED BY <1>1, <1>2, <1>3, <1>4, <1>5 DEF Next, Collecting, Loses, Process

\* SkippedInv and RangesInv hold at first.
LEMMA RangesInit == Init => SkippedInv /\ RangesInv
BY DEF Init, CallsInit, RestInit, CommandInit, SkippedInv, RangesInv, Threads

\* The variables keep their types; no more requests are in flight than the semaphore of
\* the server admits, over all callers, stages and failures; and a caller is skipped
\* exactly when the configuration says so.
THEOREM DeviceTypeCorrect == Spec => []DTypeOK
<1>1. SkippedInv /\ AnswersInv /\ [Next]_vars => SkippedInv'
  <2> SUFFICES ASSUME SkippedInv, AnswersInv, [Next]_vars
               PROVE  SkippedInv'
    OBVIOUS
  <2>1. \A c \in Callers : StageMoves(c)
    BY StagesMove DEF AnswersInv, AllHaveOne
  <2>2. config' = config
    BY ConfigStays
  <2> QED BY <2>1, <2>2 DEF SkippedInv, StageMoves
<1>2. OpenInv /\ AnswersInv /\ SlotsInv /\ RangesInv /\ SkippedInv => DTypeOK
  <2> SUFFICES ASSUME OpenInv, AnswersInv, SlotsInv, RangesInv, SkippedInv
               PROVE  DTypeOK
    OBVIOUS
  <2>1. \A c \in Callers : errors[c] \cap todo[c] = {}
    BY DEF AnswersInv, CallerAccounts, ThreadAccounts
  <2>2. \A c \in Callers : links[c] \subseteq DOMAIN NextLink
    BY DEF RangesInv
  <2>3. phase \in {"up", "stopping", "closing", "closed"} /\ stage \in [Callers -> Stages]
    BY DEF OpenInv
  <2> QED BY <2>1, <2>2, <2>3 DEF DTypeOK, RangesInv, SkippedInv, SlotsInv, Stages
<1> QED BY <1>1, <1>2, RangesInit, RangesNext, SlotsInit, SlotsNext, AnswersInit, AnswersNext,
           OpenInit, OpenNext, PTL DEF Spec
=============================================================================
