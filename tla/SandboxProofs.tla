---------------------------- MODULE SandboxProofs ----------------------------
(***************************************************************************)
(* The safety of Sandbox for every set of processes and directories and    *)
(* however many containers are made and docker calls fail.                 *)
(*                                                                         *)
(* None of the four invariants is inductive.  IInv adds what a process     *)
(* knows at each place of ensure_ready, that ids of containers are never   *)
(* used again, and that a command in a container has a container.          *)
(***************************************************************************)
EXTENDS Sandbox, TLAPS

Labels == {"off", "state", "check", "start", "reach", "image", "create", "ready", "waiting",
           "wipe", "rm"}

Told == [id : Nat \cup {None}, text : {"(no network)", "with network"}]

AgentState ==
  [at : Labels, sandbox : BOOLEAN, network : BOOLEAN, kind : {None, "host", "docker"},
   saw : {None, "running", "exited"}, todo : SUBSET MASKED, masks : SUBSET MASKED,
   kept : SUBSET MASKED, checked : Nat \cup {None}, told : Told \cup {None},
   calm : BOOLEAN]

(* A DockerSandbox that got ready.                                         *)
Served(x) == x.at \in {"ready", "waiting"} /\ x.kind = "docker"

Commands == [by : Agents, where : {"host", "container"}, asked : BOOLEAN, awaited : BOOLEAN]

Types ==
  /\ docker \in BOOLEAN /\ image \in BOOLEAN
  /\ host \in SUBSET MASKED
  /\ made \in Nat
  /\ container \in Container \cup {None}
  /\ agent \in [Agents -> AgentState]
  /\ commands \in SUBSET Commands
  /\ clobbered \in SUBSET (Nat \X MASKED)

(* No process remembers the id of a container that is yet to be made.      *)
Past(x, n) ==
  /\ x.checked \in 1..n \cup {None}
  /\ Served(x) => x.told \in Told /\ x.told.id \in 1..n \cup {None}

(* The flag decides the class.                                             *)
AsAsked(x) == x.sandbox => x.kind # "host"

(* What was checked and told of the present container is so.               *)
Reach(x, con) ==
  /\ Served(x) /\ x.told.text = "(no network)" => x.told.id # None
  /\ con # None =>
       /\ x.network /\ x.checked = con.id => con.network
       /\ Served(x) /\ x.told.id = con.id => (x.told.text = "with network") = con.network

(* What a process that was not disturbed may rely on.                      *)
Usable(x, con) ==
  x.calm =>
    /\ x.at \in {"check", "start"} => con # None
    /\ x.at = "check" /\ x.saw = "running" => con.running
    /\ x.at = "reach" => con # None /\ con.running
    /\ Served(x) => con # None /\ con.running

(* The place of a process x is a legal one beside the container con, the   *)
(* n-th that was made or an earlier one.                                   *)
Legal(x, con, n) ==
  /\ x \in AgentState
  /\ Past(x, n)
  /\ AsAsked(x)
  /\ Reach(x, con)
  /\ Usable(x, con)

(* What the host h has kept is found by _create, or has been.              *)
Keeps(x, h) == x.at = "create" => x.kept \subseteq h /\ x.kept \subseteq x.masks \cup x.todo

(* The container masks what the host had all the while.                    *)
Masks(con, n) == con # None => con.id \in 1..n /\ con.had \subseteq con.masked

(* Commands in a container have one.                                       *)
InContainer == \A c \in commands : c.where = "container" => container # None

(* What was written was written by a container that there has been.        *)
ClobberedBefore == \A x \in clobbered : x[1] \in 1..made

IInv ==
  /\ Types
  /\ \A a \in Agents : Legal(agent[a], container, made)
  /\ \A a \in Agents : Keeps(agent[a], host)
  /\ Masks(container, made)
  /\ InContainer
  /\ ClobberedBefore
  /\ AskedIsConfined
  /\ MaskedIsLocal

-----------------------------------------------------------------------------
(* A process that is not running.                                          *)
LEMMA OffLegal == \A con, n, h : n \in Nat => Legal(Off, con, n) /\ Keeps(Off, h)
BY SandboxConstants
   DEF Legal, Past, AsAsked, Reach, Usable, Served, Off, AgentState, Labels, Told, Keeps

(* The invariant holds before any sandbox is made.                         *)
LEMMA InitIInv == Init => IInv
<1> SUFFICES ASSUME Init PROVE IInv
  OBVIOUS
<1>1. \A a \in Agents : Legal(agent[a], container, made) /\ Keeps(agent[a], host)
  BY OffLegal DEF Init
<1> QED
  BY <1>1 DEF Init, IInv, Types, Legal, Masks, InContainer, ClobberedBefore, AskedIsConfined,
              MaskedIsLocal

(* A step that changes nothing but where one process is.                   *)
LEMMA AloneStep ==
  ASSUME IInv, NEW a \in Agents, NEW x, Legal(x, container, made), Keeps(x, host),
         agent' = [agent EXCEPT ![a] = x],
         UNCHANGED <<docker, image, host, container, made, commands, clobbered>>
  PROVE  IInv'
<1>1. x \in AgentState
  BY DEF Legal
<1>2. \A b \in Agents : agent'[b] = IF b = a THEN x ELSE agent[b]
  BY DEF IInv, Types
<1>3. \A b \in Agents : Legal(agent[b], container, made)' /\ Keeps(agent[b], host)'
  BY <1>2 DEF IInv
<1> QED
  BY <1>1, <1>3 DEF IInv, Types, Masks, InContainer, ClobberedBefore, AskedIsConfined,
                    MaskedIsLocal, Id

(* ensure_ready, as far as it leaves docker's state as it is.              *)
LEMMA EnsureReadyStep ==
  ASSUME IInv, NEW a \in Agents,
         NEW ok \in BOOLEAN,
         \/ Look(a, ok) \/ _check_reusable(a, ok) \/ RestartFails(a) \/ Tell(a, ok)
         \/ _image_exists(a, ok) \/ NameTaken(a) \/ TimesOut(a) \/ \E d \in MASKED : Mask(a, d)
  PROVE IInv'
<1>1. /\ made \in Nat /\ container \in Container \cup {None}
      /\ agent \in [Agents -> AgentState] /\ Legal(agent[a], container, made)
      /\ container # None => container.id \in 1..made
  BY DEF IInv, Types, Masks
<1>2. ASSUME Refused(a), UNCHANGED <<docker, image, host, container, made, commands, clobbered>>
      PROVE  IInv'
  BY <1>1, <1>2, OffLegal, AloneStep DEF Refused
<1>3. CASE Look(a, ok)
  <2> DEFINE x == [agent[a] EXCEPT !.saw = _state(ok),
                             !.at = IF _state(ok) = None THEN "image" ELSE "check"]
  <2>1. agent' = [agent EXCEPT ![a] = x]
    BY <1>3 DEF Look, Goto
  <2>2. Legal(x, container, made)
    BY <1>3, <1>1, SandboxConstants, ZenonT(60)
       DEF Look, At, _state, Legal, Past, AsAsked, Reach, Usable, Served, AgentState, Labels, Told, Container
  <2>3. Keeps(x, host)
    BY <1>1 DEF Keeps, AgentState
  <2> QED
    BY <2>1, <2>2, <2>3, <1>3, AloneStep DEF Look, world
<1>4. CASE _check_reusable(a, ok) /\ ~(agent[a].network /\ _network_mode(ok) = "none")
  <2> DEFINE x == [agent[a] EXCEPT !.checked = Heard(ok), !.saw = None,
                             !.at = IF agent[a].saw = "running" THEN "reach" ELSE "start"]
  <2>1. agent' = [agent EXCEPT ![a] = x]
    BY <1>4 DEF _check_reusable, Goto
  <2>2. Legal(x, container, made)
    BY <1>4, <1>1, SandboxConstants, ZenonT(60)
       DEF _check_reusable, At, _network_mode, Heard, Id, Legal, Past, AsAsked, Reach, Usable, Served, AgentState, Labels, Told, Container
  <2>3. Keeps(x, host)
    BY <1>1 DEF Keeps, AgentState
  <2> QED
    BY <2>1, <2>2, <2>3, <1>4, AloneStep DEF _check_reusable, world
<1>5. CASE RestartFails(a)
  <2> DEFINE x == [agent[a] EXCEPT !.at = "reach", !.calm = FALSE]
  <2>1. agent' = [agent EXCEPT ![a] = x]
    BY <1>5 DEF RestartFails, Goto
  <2>2. Legal(x, container, made)
    BY <1>5, <1>1, SandboxConstants, ZenonT(60)
       DEF RestartFails, At, Legal, Past, AsAsked, Reach, Usable, Served, AgentState, Labels, Told, Container
  <2>3. Keeps(x, host)
    BY <1>1 DEF Keeps, AgentState
  <2> QED
    BY <2>1, <2>2, <2>3, <1>5, AloneStep DEF RestartFails, world
<1>6. CASE Tell(a, ok)
  <2> DEFINE x == [agent[a] EXCEPT !.at = "ready", !.told = [id |-> Heard(ok), text |-> _actual_reach(ok)]]
  <2>1. agent' = [agent EXCEPT ![a] = x]
    BY <1>6 DEF Tell, Goto
  <2>2. Legal(x, container, made)
    BY <1>6, <1>1, SandboxConstants, ZenonT(60)
       DEF Tell, At, _actual_reach, _network_mode, Heard, Id, Legal, Past, AsAsked, Reach, Usable, Served, AgentState, Labels, Told, Container
  <2>3. Keeps(x, host)
    BY <1>1 DEF Keeps, AgentState
  <2> QED
    BY <2>1, <2>2, <2>3, <1>6, AloneStep DEF Tell, world
<1>7. CASE _image_exists(a, ok) /\ image /\ ok
  <2> DEFINE x == [agent[a] EXCEPT !.at = "create", !.todo = MASKED, !.masks = {}, !.kept = host]
  <2>1. agent' = [agent EXCEPT ![a] = x]
    BY <1>7 DEF _image_exists
  <2>2. host \in SUBSET MASKED /\ agent[a] \in AgentState
    BY <1>1 DEF IInv, Types
  <2>3. /\ x \in AgentState /\ x.at = "create" /\ x.sandbox = agent[a].sandbox
        /\ x.network = agent[a].network /\ x.kind = agent[a].kind
        /\ x.checked = agent[a].checked /\ x.todo = MASKED /\ x.kept = host
    BY <2>2 DEF AgentState, Labels
  <2> HIDE DEF x
  <2>4. Legal(x, container, made) /\ Keeps(x, host)
    BY <1>1, <2>2, <2>3 DEF Legal, Past, AsAsked, Reach, Usable, Served, Keeps
  <2> QED
    BY <2>1, <2>4, <1>7, AloneStep DEF _image_exists, world
<1>8. ASSUME NEW d \in MASKED, Mask(a, d)
      PROVE  IInv'
  <2> DEFINE y == agent[a]
             x == [agent[a] EXCEPT !.todo = @ \ {d}, !.masks = IF exists(d) THEN @ \cup {d} ELSE @]
  <2>1. agent' = [agent EXCEPT ![a] = x]
    BY <1>1, <1>8 DEF Mask
  <2>2. y \in AgentState /\ y.at = "create" /\ Keeps(y, host)
    BY <1>1, <1>8 DEF IInv, Mask, At
  <2>3. /\ x \in AgentState /\ x.at = "create" /\ x.sandbox = y.sandbox
        /\ x.network = y.network /\ x.kind = y.kind /\ x.checked = y.checked
        /\ x.todo = y.todo \ {d} /\ x.kept = y.kept
        /\ x.masks = IF d \in host THEN y.masks \cup {d} ELSE y.masks
    BY <2>2 DEF AgentState, exists
  <2> HIDE DEF x
  <2>4. Legal(x, container, made) /\ Keeps(x, host)
    BY <1>1, <2>2, <2>3 DEF Legal, Past, AsAsked, Reach, Usable, Served, Keeps
  <2> QED
    BY <2>1, <2>4, <1>8, AloneStep DEF Mask, world
<1> QED
  BY <1>2, <1>3, <1>4, <1>5, <1>6, <1>7, <1>8
     DEF _check_reusable, _image_exists, NameTaken, TimesOut, world

(* A new container is nobody's: no process has checked it or been told of  *)
(* it, and where there was none no process relied on one.                  *)
LEMMA NewContainer ==
  ASSUME NEW x, NEW n \in Nat, NEW con \in Container, con.id = n + 1, Legal(x, None, n)
  PROVE  Legal(x, con, n + 1)
<1>1. n + 1 # None /\ con.id \notin 1..n \cup {None}
  BY SandboxConstants
<1>2. x \in AgentState /\ AsAsked(x) /\ Past(x, n) /\ Past(x, n + 1)
  BY DEF Legal, Past
<1>3. Reach(x, con)
  <2>1. Reach(x, None)
    BY DEF Legal
  <2> QED
    BY <1>1, <1>2, <2>1 DEF Reach, Past
<1>4. Usable(x, con)
  BY DEF Legal, Usable
<1> QED
  BY <1>2, <1>3, <1>4 DEF Legal

(* What docker run makes for a process has the settings it asked for.      *)
LEMMA MadeIsContainer ==
  ASSUME IInv, NEW a \in Agents, NEW running \in BOOLEAN
  PROVE  /\ Made(a, running) \in Container
         /\ Made(a, running) # None
         /\ Made(a, running).id = made + 1
         /\ Made(a, running).running = running
         /\ Made(a, running).network = agent[a].network
         /\ agent[a].at = "create" /\ agent[a].todo = {} =>
              Made(a, running).had \subseteq Made(a, running).masked
<1> DEFINE con == Made(a, running)
<1>1. /\ agent[a].masks \in SUBSET MASKED /\ agent[a].kept \in SUBSET MASKED
      /\ agent[a].network \in BOOLEAN /\ made + 1 \in Nat
  BY DEF IInv, Types, AgentState
<1>2. /\ con.id = made + 1 /\ con.running = running /\ con.network = agent[a].network
      /\ con.masked = agent[a].masks /\ con.had = agent[a].kept
  BY <1>1 DEF Made
<1>3. con \in Container
  BY <1>1 DEF Made, Container
<1>4. agent[a].at = "create" /\ agent[a].todo = {} => con.had \subseteq con.masked
  BY <1>2 DEF IInv, Keeps
<1> QED
  BY <1>2, <1>3, <1>4, SandboxConstants

(* docker run, whether the process hears of its success or not.            *)
LEMMA MadeStep ==
  ASSUME IInv, NEW a \in Agents, NEW running \in BOOLEAN, NEW x,
         container = None, MayRun(a),
         container' = Made(a, running), made' = made + 1,
         host' \in {host, host \cup agent[a].masks},
         agent' = [agent EXCEPT ![a] = x],
         Legal(x, Made(a, running), made + 1), x.at # "create",
         UNCHANGED <<docker, image, commands, clobbered>>
  PROVE  IInv'
<1> DEFINE con == Made(a, running)
<1>1. made \in Nat /\ agent \in [Agents -> AgentState]
  BY DEF IInv, Types
<1>2. con \in Container /\ con # None /\ con.id = made + 1 /\ con.had \subseteq con.masked
  BY MadeIsContainer DEF MayRun, At
<1> HIDE DEF con
<1>3. \A b \in Agents : agent'[b] = IF b = a THEN x ELSE agent[b]
  BY <1>1
<1>4. \A b \in Agents : Legal(agent[b], con, made + 1)
  BY <1>1, <1>2, NewContainer DEF IInv
<1>5. \A b \in Agents : Legal(agent[b], container, made)'
  BY <1>3, <1>4 DEF con
<1>51. host \subseteq host' /\ host' \in SUBSET MASKED
  BY DEF IInv, Types, AgentState
<1>52. \A b \in Agents : Keeps(agent[b], host)'
  BY <1>3, <1>51 DEF IInv, Keeps
<1>6. Types'
  BY <1>1, <1>2, <1>51 DEF IInv, Types, Legal, con
<1>7. Masks(container, made)' /\ ClobberedBefore' /\ InContainer' /\ AskedIsConfined'
  BY <1>1, <1>2 DEF IInv, Types, Masks, ClobberedBefore, InContainer, AskedIsConfined, con
<1>8. MaskedIsLocal'
  BY <1>1, <1>2 DEF IInv, ClobberedBefore, MaskedIsLocal, Id, con
<1> QED
  BY <1>5, <1>52, <1>6, <1>7, <1>8 DEF IInv

(* The container is created, and the process goes on to reach it.          *)
LEMMA CreateStep ==
  ASSUME IInv, NEW a \in Agents, _create(a)
  PROVE  IInv'
<1> DEFINE x == [agent[a] EXCEPT !.at = "reach", !.checked = made + 1, !.masks = {}, !.kept = {}]
           con == Made(a, TRUE)
<1>1. made \in Nat /\ agent[a] \in AgentState /\ Legal(agent[a], None, made)
  BY DEF IInv, Types, _create
<1>2. con # None /\ con.id = made + 1 /\ con.running /\ con.network = agent[a].network
  BY MadeIsContainer
<1> HIDE DEF con
<1>3. /\ x \in AgentState
      /\ x.at = "reach" /\ x.checked = made + 1 /\ x.network = agent[a].network
      /\ x.sandbox = agent[a].sandbox /\ x.kind = agent[a].kind
  <2> DEFINE T == Told \cup {None}
             y == [agent[a] EXCEPT !.at = "reach", !.masks = {}, !.kept = {}]
  <2>1. y \in AgentState /\ y.network = agent[a].network /\ y.at = "reach"
        /\ y.sandbox = agent[a].sandbox /\ y.kind = agent[a].kind
    <3> HIDE DEF T
    <3> QED
      BY <1>1 DEF AgentState, Labels
  <2>2. made + 1 \in Nat \cup {None}
    BY <1>1
  <2>3. x = [y EXCEPT !.checked = made + 1]
    BY <1>1 DEF AgentState
  <2> HIDE DEF x, y
  <2>4. x \in AgentState
    BY <2>1, <2>2, <2>3 DEF AgentState
  <2> QED
    BY <2>1, <2>3, <2>4 DEF AgentState
<1> HIDE DEF x
<1>4. Legal(x, con, made + 1)
  <2>1. ~Served(x)
    BY <1>3 DEF Served
  <2>2. Past(x, made + 1)
    BY <1>1, <1>3, <2>1 DEF Past
  <2>3. AsAsked(x) /\ Reach(x, con) /\ Usable(x, con)
    BY <1>1, <1>2, <1>3, <2>1 DEF Legal, AsAsked, Reach, Usable
  <2> QED
    BY <1>3, <2>2, <2>3 DEF Legal
<1>5. agent' = [agent EXCEPT ![a] = x]
  BY DEF _create, x
<1> QED
  BY <1>3, <1>4, <1>5, MadeStep DEF _create, world, con

(* docker run fails, and may leave a container behind.                     *)
LEMMA CreateFailsStep ==
  ASSUME IInv, NEW a \in Agents, NEW left \in {"nothing", "created", "running"},
         CreateFails(a, left)
  PROVE  IInv'
<1>1. made \in Nat
  BY DEF IInv, Types
<1>2. CASE left = "nothing"
  BY <1>1, <1>2, OffLegal, AloneStep DEF CreateFails, Refused, world
<1>3. CASE left # "nothing"
  <2> DEFINE running == left = "running"
  <2>1. running \in BOOLEAN /\ Legal(Off, Made(a, running), made + 1)
    BY <1>1, OffLegal
  <2>2. container = None /\ container' = Made(a, running) /\ made' = made + 1
        /\ host' \in {host, host \cup agent[a].masks} /\ MayRun(a) /\ Off.at # "create"
    BY <1>3 DEF CreateFails, Off
  <2> HIDE DEF running
  <2> QED
    BY <2>1, <2>2, MadeStep DEF CreateFails, Refused, world
<1> QED
  BY <1>2, <1>3

(* A process starts, exits or looks around before it removes something.    *)
LEMMA FlagsStep ==
  ASSUME IInv, NEW a \in Agents,
         \/ \E sandbox, network \in BOOLEAN : Start(a, sandbox, network)
         \/ Exit(a) \/ Wipe(a) \/ \E ok \in BOOLEAN : LookToWipe(a, ok)
  PROVE  IInv'
<1>1. /\ made \in Nat /\ agent \in [Agents -> AgentState]
      /\ Legal(agent[a], container, made)
  BY DEF IInv, Types
<1>2. ASSUME NEW sandbox \in BOOLEAN, NEW network \in BOOLEAN, Start(a, sandbox, network)
      PROVE  IInv'
  <2> DEFINE x == [Off EXCEPT !.at = IF sandbox THEN "state" ELSE "ready",
                              !.sandbox = sandbox, !.network = network,
                              !.kind = IF sandbox THEN "docker" ELSE "host"]
  <2>1. Legal(x, container, made) /\ Keeps(x, host)
    <3>1. /\ x.at = IF sandbox THEN "state" ELSE "ready"
          /\ x.sandbox = sandbox /\ x.kind = (IF sandbox THEN "docker" ELSE "host")
          /\ x.checked = None
          /\ x \in AgentState
      BY DEF Off, AgentState, Labels
    <3>2. container # None => container.id # None
      BY SandboxConstants DEF IInv, Masks
    <3> HIDE DEF x
    <3> QED
      BY <3>1, <3>2 DEF Legal, Past, AsAsked, Reach, Usable, Served, Keeps
  <2>2. agent' = [agent EXCEPT ![a] = x]
    BY <1>2 DEF Start
  <2> QED
    BY <1>2, <2>1, <2>2, AloneStep DEF Start, world
<1>3. ASSUME NEW l \in {"wipe", "rm"}, Goto(a, l),
             UNCHANGED <<docker, image, host, container, made, commands, clobbered>>
      PROVE  IInv'
  <2> DEFINE x == [agent[a] EXCEPT !.at = l]
  <2>1. Legal(x, container, made) /\ Keeps(x, host)
    BY <1>1 DEF Legal, Past, AsAsked, Reach, Usable, Served, AgentState, Labels, Keeps
  <2> QED
    BY <1>3, <2>1, AloneStep DEF Goto
<1>4. ASSUME agent' = [agent EXCEPT ![a] = Off],
             UNCHANGED <<docker, image, host, container, made, commands, clobbered>>
      PROVE  IInv'
  BY <1>1, <1>4, OffLegal, AloneStep
<1> QED
  BY <1>2, <1>3, <1>4 DEF Exit, Wipe, LookToWipe, Refused, world

(* Shell commands start, end or are given up.                              *)
LEMMA CommandStep ==
  ASSUME IInv, NEW a \in Agents, Run(a) \/ Return(a) \/ GiveUp(a)
  PROVE  IInv'
<1>1. /\ made \in Nat /\ agent \in [Agents -> AgentState]
      /\ Legal(agent[a], container, made)
  BY DEF IInv, Types
<1>2. PICK l \in {"ready", "waiting"} : Goto(a, l) /\ agent[a].at \in {"ready", "waiting"}
  BY DEF Run, Return, GiveUp, At
<1> DEFINE x == [agent[a] EXCEPT !.at = l]
<1>3. Legal(x, container, made)
  BY <1>1, <1>2, ZenonT(60) DEF Legal, Past, AsAsked, Reach, Usable, Served, AgentState, Labels
<1>31. Keeps(x, host)
  BY <1>1, <1>2 DEF Keeps, AgentState
<1>4. UNCHANGED <<docker, image, host, container, made, clobbered>>
  BY DEF Run, Return, GiveUp, world
<1>5. \A b \in Agents : Legal(agent[b], container, made)' /\ Keeps(agent[b], host)'
  BY <1>1, <1>2, <1>3, <1>31, <1>4 DEF IInv, Goto
<1>6. /\ commands' \in SUBSET Commands
      /\ InContainer'
      /\ AskedIsConfined'
  <2>1. CASE Run(a)
    <3> DEFINE c == Command(a, IF agent[a].kind = "host" THEN "host" ELSE "container")
    <3>1. c \in Commands /\ (c.asked => c.where = "container")
      BY <1>1 DEF Command, Commands, Legal, AgentState, AsAsked
    <3>2. c.where = "container" => container # None
      BY <2>1, SandboxConstants DEF Run, Command, Running
    <3> HIDE DEF c
    <3>3. commands' = commands \cup {c}
      BY <2>1 DEF Run, c
    <3> QED
      BY <3>1, <3>2, <3>3, <1>4 DEF IInv, Types, InContainer, AskedIsConfined
  <2>2. CASE Return(a)
    BY <2>2, <1>4 DEF Return, IInv, Types, InContainer, AskedIsConfined
  <2>3. CASE GiveUp(a)
    <3>1. \A c \in commands' : \E d \in commands : c \in {d, [d EXCEPT !.awaited = FALSE]}
      BY <2>3 DEF GiveUp
    <3>2. \A d \in commands : LET c == [d EXCEPT !.awaited = FALSE]
                              IN  c \in Commands /\ c.where = d.where /\ c.asked = d.asked
      BY DEF IInv, Types, Commands
    <3>3. \A c \in commands' : \E d \in commands :
            c \in Commands /\ c.where = d.where /\ c.asked = d.asked
      BY <3>1, <3>2 DEF IInv, Types
    <3> QED
      BY <3>3, <1>4 DEF IInv, InContainer, AskedIsConfined
  <2> QED
    BY <2>1, <2>2, <2>3
<1>7. agent' \in [Agents -> AgentState]
  BY <1>1, <1>2, <1>3 DEF Goto, Legal
<1> QED
  BY <1>4, <1>5, <1>6, <1>7 DEF IInv, Types, Masks, ClobberedBefore, MaskedIsLocal, Id

(* The directories on the host change, and nothing else.                   *)
LEMMA WritesStep ==
  ASSUME IInv,
         \/ \E c \in commands, d \in MASKED : Writes(c, d)
         \/ \E d \in MASKED : HostBuilds(d)
  PROVE  IInv'
<1>1. UNCHANGED <<docker, image, container, made, agent, commands>>
  BY DEF Writes, HostBuilds, world
<1>2. host' \in SUBSET MASKED
  BY DEF Writes, HostBuilds, IInv, Types
<1>3. \A x \in clobbered' \ clobbered :
        x \in Nat \X MASKED /\ x[1] \in 1..made /\ container # None /\ x[2] \notin container.had
  <2> SUFFICES ASSUME NEW c \in commands, NEW d \in MASKED, Writes(c, d),
                      NEW x \in clobbered', x \notin clobbered
               PROVE  x \in Nat \X MASKED /\ x[1] \in 1..made /\ container # None /\ x[2] \notin container.had
    BY DEF HostBuilds
  <2>1. c.where = "container" /\ d \notin container.masked /\ x = <<container.id, d>>
    BY DEF Writes
  <2> QED
    BY <2>1 DEF IInv, Types, InContainer, Masks
<1>4. \A b \in Agents : Keeps(agent[b], host)'
  <2>1. host \subseteq host'
    BY DEF Writes, HostBuilds
  <2> QED
    BY <1>1, <2>1 DEF IInv, Keeps
<1> QED
  BY <1>1, <1>2, <1>3, <1>4
     DEF IInv, Types, Masks, InContainer, ClobberedBefore, AskedIsConfined, MaskedIsLocal, Id

(* What the host loses no process has kept.                                *)
LEMMA CleansStep ==
  ASSUME IInv, NEW d \in MASKED, HostCleans(d)
  PROVE  IInv'
<1>1. /\ agent \in [Agents -> AgentState] /\ host \in SUBSET MASKED
      /\ host' = host \ {d}
      /\ agent' = [a \in Agents |-> [agent[a] EXCEPT !.kept = @ \ {d}]]
      /\ UNCHANGED <<docker, image, container, made, commands, clobbered>>
  BY DEF IInv, Types, HostCleans, world
<1>2. ASSUME NEW b \in Agents
      PROVE  /\ agent'[b] \in AgentState
             /\ Legal(agent'[b], container, made)
             /\ Keeps(agent'[b], host')
  <2> DEFINE y == agent[b]
             x == [agent[b] EXCEPT !.kept = @ \ {d}]
  <2>1. y \in AgentState /\ Legal(y, container, made) /\ Keeps(y, host)
    BY <1>1 DEF IInv
  <2>2. /\ x \in AgentState /\ x.at = y.at /\ x.sandbox = y.sandbox
        /\ x.network = y.network /\ x.kind = y.kind /\ x.saw = y.saw
        /\ x.checked = y.checked /\ x.told = y.told /\ x.calm = y.calm
        /\ x.todo = y.todo /\ x.masks = y.masks /\ x.kept = y.kept \ {d}
    BY <2>1 DEF AgentState
  <2>3. agent'[b] = x
    BY <1>1
  <2> HIDE DEF x, y
  <2>4. Legal(x, container, made)
    BY <2>1, <2>2 DEF Legal, Past, AsAsked, Reach, Usable, Served
  <2>5. Keeps(x, host')
    BY <1>1, <2>1, <2>2 DEF Keeps
  <2> QED
    BY <2>2, <2>3, <2>4, <2>5
<1>3. agent' \in [Agents -> AgentState]
  BY <1>1, <1>2
<1>4. \A b \in Agents : Legal(agent[b], container, made)' /\ Keeps(agent[b], host)'
  BY <1>1, <1>2
<1> QED
  BY <1>1, <1>3, <1>4
     DEF IInv, Types, Masks, InContainer, ClobberedBefore, AskedIsConfined, MaskedIsLocal, Id

(* The container is started, stopped or removed.                           *)
LEMMA ContainerStep ==
  ASSUME IInv, Stops \/ \E a \in Agents : Restart(a) \/ \E works \in BOOLEAN : Remove(a, works)
  PROVE  IInv'
<1>1. /\ made \in Nat /\ agent \in [Agents -> AgentState]
      /\ container \in Container \cup {None}
      /\ \A b \in Agents : Legal(agent[b], container, made)
  BY DEF IInv, Types
(* A process that is off keeps its state, any other one loses its calm.    *)
<1>2. ASSUME NEW b \in Agents, NEW con,
             con # None => container # None /\ con.id = container.id /\ con.network = container.network
      PROVE  Legal(Disturbed[b], con, made) /\ Keeps(Disturbed[b], host)
  <2> DEFINE x == [agent[b] EXCEPT !.calm = agent[b].at = "off"]
  <2>1. Disturbed[b] = x
    BY DEF Disturbed, At
  <2>2. /\ x \in AgentState /\ x.at = agent[b].at /\ x.sandbox = agent[b].sandbox
        /\ x.network = agent[b].network /\ x.kind = agent[b].kind
        /\ x.checked = agent[b].checked /\ x.told = agent[b].told
        /\ x.todo = agent[b].todo /\ x.masks = agent[b].masks /\ x.kept = agent[b].kept
        /\ x.calm => x.at = "off"
    BY <1>1 DEF AgentState
  <2> HIDE DEF x
  <2>3. Legal(agent[b], container, made)
    BY <1>1
  <2>4. Legal(x, con, made)
    BY <1>2, <2>2, <2>3 DEF Legal, Past, AsAsked, Reach, Usable, Served
  <2>5. Keeps(x, host)
    BY <2>2 DEF IInv, Keeps
  <2> QED
    BY <2>1, <2>4, <2>5
<1>3. CASE Stops
  <2> DEFINE con == [container EXCEPT !.running = FALSE]
  <2>1. con \in Container /\ con # None /\ con.id = container.id
        /\ con.network = container.network /\ con.masked = container.masked /\ con.had = container.had
    BY <1>1, <1>3, SandboxConstants DEF Stops, Container
  <2>2. container' = con /\ container # None /\ commands' = OnHost /\ agent' = Disturbed
        /\ UNCHANGED <<docker, image, host, made, clobbered>>
    BY <1>3 DEF Stops, world
  <2> HIDE DEF con
  <2>3. \A b \in Agents : Legal(agent[b], container, made)' /\ Keeps(agent[b], host)'
    BY <1>2, <2>1, <2>2
  <2>4. agent' \in [Agents -> AgentState]
    BY <2>2, <2>3 DEF Legal, Disturbed
  <2> QED
    BY <2>1, <2>2, <2>3, <2>4
       DEF IInv, Types, Masks, InContainer, OnHost, ClobberedBefore, AskedIsConfined, MaskedIsLocal, Id
<1>4. ASSUME NEW a \in Agents, Restart(a)
      PROVE  IInv'
  <2> DEFINE con == IF container = None THEN None ELSE [container EXCEPT !.running = TRUE]
             x == [agent[a] EXCEPT !.at = "reach"]
  <2>1. /\ con \in Container \cup {None}
        /\ con = None <=> container = None
        /\ con # None => /\ con.id = container.id /\ con.network = container.network
                         /\ con.masked = container.masked /\ con.had = container.had
                         /\ con.running
    BY <1>1, SandboxConstants DEF Container
  <2>2. container' = con /\ agent' = [agent EXCEPT ![a] = x] /\ agent[a].at = "start"
        /\ UNCHANGED <<docker, image, made, commands, clobbered>>
    BY <1>4 DEF Restart, Goto, At, world
  <2>21. host \subseteq host' /\ host' \in SUBSET MASKED
    BY <1>1, <1>4, SandboxConstants DEF Restart, IInv, Types, Container
  <2>22. x.at = "reach"
    BY <1>1 DEF AgentState
  <2> HIDE DEF con
  <2>3. ASSUME NEW b \in Agents
        PROVE  Legal(agent[b], con, made)
    BY <1>1, <2>1 DEF Legal, Past, AsAsked, Reach, Usable, Served
  <2>4. Legal(x, con, made)
    <3>1. /\ x \in AgentState /\ x.at = "reach" /\ x.sandbox = agent[a].sandbox
          /\ x.network = agent[a].network /\ x.kind = agent[a].kind
          /\ x.checked = agent[a].checked /\ x.calm = agent[a].calm
      BY <1>1 DEF AgentState, Labels
    <3> HIDE DEF x
    <3>2. x.calm => con # None /\ con.running
      BY <1>1, <2>1, <2>2, <3>1 DEF Legal, Usable
    <3>3. Legal(agent[a], con, made)
      BY <2>3
    <3> QED
      BY <3>1, <3>2, <3>3 DEF Legal, Past, AsAsked, Reach, Usable, Served
  <2>5. \A b \in Agents : Legal(agent[b], container, made)'
    BY <1>1, <2>2, <2>3, <2>4
  <2>6. \A b \in Agents : Keeps(agent[b], host)'
    BY <1>1, <2>2, <2>21, <2>22 DEF IInv, Keeps
  <2> QED
    BY <1>1, <2>1, <2>2, <2>21, <2>4, <2>5, <2>6
       DEF IInv, Types, Legal, Masks, InContainer, ClobberedBefore, AskedIsConfined, MaskedIsLocal, Id
<1>5. ASSUME NEW a \in Agents, Remove(a, TRUE)
      PROVE  IInv'
  <2>1. container' = None /\ commands' = OnHost
        /\ agent' = [Disturbed EXCEPT ![a] = Off]
        /\ UNCHANGED <<docker, image, host, made, clobbered>>
    BY <1>5 DEF Remove, world
  <2>2. \A b \in Agents : Legal(Disturbed[b], None, made) /\ Keeps(Disturbed[b], host)
    BY <1>2
  <2>3. \A b \in Agents : Legal(agent[b], container, made)' /\ Keeps(agent[b], host)'
    BY <1>1, <2>1, <2>2, OffLegal DEF Disturbed
  <2>4. agent' \in [Agents -> AgentState]
    BY <2>1, <2>3 DEF Legal, Disturbed
  <2>5. \A x \in clobbered : x[1] # None
    BY <1>1, SandboxConstants DEF IInv, ClobberedBefore
  <2> QED
    BY <2>1, <2>3, <2>4, <2>5
       DEF IInv, Types, Masks, InContainer, OnHost, ClobberedBefore, AskedIsConfined, MaskedIsLocal, Id
<1>6. ASSUME NEW a \in Agents, Remove(a, FALSE)
      PROVE  IInv'
  BY <1>1, <1>6, OffLegal, AloneStep DEF Remove, world
<1> QED
  BY <1>3, <1>4, <1>5, <1>6

(* Every step keeps the invariant.                                         *)
LEMMA NextIInv == IInv /\ [Next]_vars => IInv'
<1> SUFFICES ASSUME IInv, [Next]_vars PROVE IInv'
  OBVIOUS
<1>1. CASE UNCHANGED vars
  BY <1>1 DEF vars, world, IInv, Types, Masks, InContainer, ClobberedBefore, AskedIsConfined,
              MaskedIsLocal, Id
<1> QED
  BY <1>1, EnsureReadyStep, CreateStep, CreateFailsStep, FlagsStep, CommandStep, WritesStep,
     CleansStep, ContainerStep
     DEF Next, ensure_ready

(* The inductive invariant implies the four that the user relies on.       *)
LEMMA IInvSuffices ==
  IInv => AskedIsConfined /\ NetworkAsAsked /\ ReadyIsUsable /\ MaskedIsLocal
<1> SUFFICES ASSUME IInv PROVE NetworkAsAsked /\ ReadyIsUsable
  BY DEF IInv
<1>1. \A a \in Agents : Ready(a) = Served(agent[a])
  BY DEF Ready, Served
<1>2. NetworkAsAsked
  BY <1>1 DEF IInv, Legal, Reach, NetworkAsAsked, Id
<1>3. ReadyIsUsable
  BY <1>1 DEF IInv, Legal, Usable, ReadyIsUsable, Running
<1> QED
  BY <1>2, <1>3

(* Who asks for a sandbox never runs a command on the host.                *)
THEOREM Confinement == Spec => []AskedIsConfined
BY InitIInv, NextIInv, IInvSuffices, PTL DEF Spec

(* A process that asked for network has it in the container whose mode it  *)
(* heard, what it was then told of the container's reach stays true, and   *)
(* "(no network)" is never said without hearing it.                        *)
THEOREM NetworkHonest == Spec => []NetworkAsAsked
BY InitIInv, NextIInv, IInvSuffices, PTL DEF Spec

(* A process that got ready can run commands until docker or another       *)
(* process stops or removes the container.                                 *)
THEOREM Usability == Spec => []ReadyIsUsable
BY InitIInv, NextIInv, IInvSuffices, PTL DEF Spec

(* No command in a container writes artefacts that the host had from the   *)
(* first exists() of _create to docker run.                                *)
THEOREM Masking == Spec => []MaskedIsLocal
BY InitIInv, NextIInv, IInvSuffices, PTL DEF Spec
=============================================================================
