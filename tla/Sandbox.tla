------------------------------- MODULE Sandbox -------------------------------
(***************************************************************************)
(* Where the agent's shell commands run (sandbox.py, the run tool of       *)
(* tools.py, the flags of cli.py): on the host, or in the one container    *)
(* that a workspace has, which every process of the agent shares, checks   *)
(* once when it starts, and may remove under the others.                   *)
(*                                                                         *)
(* Every call of the docker command is a step of its own.  It may time     *)
(* out, which ends the process, or fail, which only docker run is asked    *)
(* about: of the others a failure is an answer without text.               *)
(***************************************************************************)
EXTENDS Integers, FiniteSets

CONSTANTS
  Agents,        \* processes of the agent in one workspace
  MASKED,        \* directories of built artefacts
  MaxContainers, \* bound: containers made
  MaxFaults,     \* bound: docker calls that fail
  None

(* A container; had is history.                                            *)
Container ==
  [id : Nat, running : BOOLEAN, network : BOOLEAN, masked : SUBSET MASKED, had : SUBSET MASKED]

ASSUME SandboxConstants ==
  /\ MaxContainers \in Nat /\ MaxFaults \in Nat
  /\ None \notin Nat \cup {"running", "exited"} \cup Container

VARIABLES
  docker,    \* docker is on PATH
  image,     \* the image is built
  host,      \* the directories of MASKED that the workspace has
  container, \* the workspace's container, or None
  made,      \* containers made so far
  agent,     \* what each process does, see Off
  commands,  \* the shell commands that are running
  clobbered, \* history: what commands in containers wrote to on the host
  faults

world == <<docker, image>>
vars == <<world, host, container, made, agent, commands, clobbered, faults>>

(* sandbox and network are the flags, kind is the class for_workspace      *)
(* chose, saw what _state returned, todo and masks are the loop over       *)
(* MASKED, and told is the line that was shown.  The rest is history:      *)
(* checked and told.id are the container whose network mode was heard,     *)
(* kept the directories that the host has had since the loop began, and    *)
(* calm is that no container was stopped or removed since the process      *)
(* started.                                                                *)
Off == [at |-> "off", sandbox |-> FALSE, network |-> FALSE, kind |-> None, saw |-> None,
        todo |-> {}, masks |-> {}, kept |-> {},
        checked |-> None, told |-> None, calm |-> TRUE]

Id == IF container = None THEN None ELSE container.id

At(a, label) == agent[a].at = label

Goto(a, label) == agent' = [agent EXCEPT ![a].at = label]

Init ==
  /\ docker \in BOOLEAN /\ image \in BOOLEAN
  /\ host \in SUBSET MASKED
  /\ container = None /\ made = 0
  /\ agent = [a \in Agents |-> Off]
  /\ commands = {} /\ clobbered = {} /\ faults = 0

-----------------------------------------------------------------------------
(* What docker says, if it answers: a call that fails prints nothing.      *)
Answers(ok) ==
  /\ ok \/ faults < MaxFaults
  /\ faults' = IF ok THEN faults ELSE faults + 1

Running == container # None /\ container.running

_state(ok) ==
  IF ~ok \/ container = None THEN None ELSE IF container.running THEN "running" ELSE "exited"

(* {{.HostConfig.NetworkMode}}, empty without a container or an answer.    *)
_network_mode(ok) ==
  IF ~ok \/ container = None THEN "" ELSE IF container.network THEN "bridge" ELSE "none"

_actual_reach(ok) == IF _network_mode(ok) = "none" THEN "(no network)" ELSE "with network"

Heard(ok) == IF ok THEN Id ELSE None

(* Nobody is calm any more, and what ran in the container is gone.         *)
Disturbed == [a \in Agents |-> [agent[a] EXCEPT !.calm = At(a, "off")]]

OnHost == {c \in commands : c.where = "host"}

-----------------------------------------------------------------------------
(* A process starts, with a sandbox only if docker is there.               *)

(* Mutant: asking for a sandbox that is not there gives the host.          *)
Start_FallsBack(a, sandbox, network) ==
  /\ At(a, "off")
  /\ agent' = [agent EXCEPT ![a] =
       [Off EXCEPT !.at = IF sandbox /\ docker THEN "state" ELSE "ready",
                   !.sandbox = sandbox, !.network = network,
                   !.kind = IF sandbox /\ docker THEN "docker" ELSE "host"]]
  /\ UNCHANGED <<world, host, container, made, commands, clobbered, faults>>

Start(a, sandbox, network) ==
  /\ At(a, "off")
  /\ sandbox => docker
  /\ agent' = [agent EXCEPT ![a] =
       [Off EXCEPT !.at = IF sandbox THEN "state" ELSE "ready",
                   !.sandbox = sandbox, !.network = network,
                   !.kind = IF sandbox THEN "docker" ELSE "host"]]
  /\ UNCHANGED <<world, host, container, made, commands, clobbered, faults>>

(* A SandboxError: the process ends.                                       *)
Refused(a) == agent' = [agent EXCEPT ![a] = Off]

(* A docker call without an effect yet times out.                          *)
TimesOut(a) ==
  /\ agent[a].at \in {"state", "check", "start", "reach", "image", "wipe", "rm"}
  /\ At(a, "check") => agent[a].network
  /\ faults < MaxFaults
  /\ faults' = faults + 1
  /\ Refused(a)
  /\ UNCHANGED <<world, host, container, made, commands, clobbered>>

(* ensure_ready: is there a container?                                     *)
Look(a, ok) ==
  /\ At(a, "state")
  /\ Answers(ok)
  /\ agent' = [agent EXCEPT ![a].saw = _state(ok),
                            ![a].at = IF _state(ok) = None THEN "image" ELSE "check"]
  /\ UNCHANGED <<world, host, container, made, commands, clobbered>>

(* Mutant: without _check_reusable.                                        *)
_check_reusable_Never(a, ok) ==
  /\ At(a, "check")
  /\ ok \/ agent[a].network
  /\ Answers(ok)
  /\ agent' = [agent EXCEPT ![a].checked = Heard(ok), ![a].saw = None,
                            ![a].at = IF agent[a].saw = "running" THEN "reach" ELSE "start"]
  /\ UNCHANGED <<world, host, container, made, commands, clobbered>>

(* A container without network is refused if network is wanted, but one    *)
(* that docker inspect says nothing of is not, ...                         *)
_check_reusable(a, ok) ==
  /\ At(a, "check")
  /\ ok \/ agent[a].network
  /\ Answers(ok)
  /\ IF agent[a].network /\ _network_mode(ok) = "none"
     THEN Refused(a)
     ELSE agent' = [agent EXCEPT ![a].checked = Heard(ok), ![a].saw = None,
                                 ![a].at = IF agent[a].saw = "running" THEN "reach" ELSE "start"]
  /\ UNCHANGED <<world, host, container, made, commands, clobbered>>

(* Mutant: a container that exists is taken for one that runs.             *)
Restart_Never(a) ==
  /\ At(a, "start")
  /\ Goto(a, "reach")
  /\ UNCHANGED <<world, host, container, made, commands, clobbered, faults>>

(* ... a stopped one is started, with mount points for its masks, and      *)
(* whether that worked is not looked at, ...                               *)
Restart(a) ==
  /\ At(a, "start")
  /\ container' = IF container = None THEN None ELSE [container EXCEPT !.running = TRUE]
  /\ host' = IF container = None THEN host ELSE host \cup container.masked
  /\ Goto(a, "reach")
  /\ UNCHANGED <<world, made, commands, clobbered, faults>>

RestartFails(a) ==
  /\ At(a, "start")
  /\ faults < MaxFaults
  /\ faults' = faults + 1
  /\ agent' = [agent EXCEPT ![a].at = "reach", ![a].calm = FALSE]
  /\ UNCHANGED <<world, host, container, made, commands, clobbered>>

(* ... and the user is told what it can reach.                             *)
Tell(a, ok) ==
  /\ At(a, "reach")
  /\ Answers(ok)
  /\ agent' = [agent EXCEPT ![a].at = "ready",
                            ![a].told = [id |-> Heard(ok), text |-> _actual_reach(ok)]]
  /\ UNCHANGED <<world, host, container, made, commands, clobbered>>

(* No container and an image: _create goes through MASKED.                 *)
_image_exists(a, ok) ==
  /\ At(a, "image")
  /\ Answers(ok)
  /\ IF image /\ ok
     THEN agent' = [agent EXCEPT ![a].at = "create", ![a].todo = MASKED, ![a].masks = {},
                                 ![a].kept = host]
     ELSE Refused(a)
  /\ UNCHANGED <<world, host, container, made, commands, clobbered>>

(* Mutant: the directories that the host does not have.                    *)
exists_Not(d) == d \notin host

(* (self.root / directory).exists()                                        *)
exists(d) == d \in host

Mask(a, d) ==
  /\ At(a, "create") /\ d \in agent[a].todo
  /\ agent' = [agent EXCEPT ![a].todo = @ \ {d}, ![a].masks = IF exists(d) THEN @ \cup {d} ELSE @]
  /\ UNCHANGED <<world, host, container, made, commands, clobbered, faults>>

(* docker run: the network and the masks are settled for good, and the     *)
(* masks get their mount points.                                           *)
Made(a, running) ==
  [id |-> made + 1, running |-> running, network |-> agent[a].network,
   masked |-> agent[a].masks, had |-> agent[a].kept]

MayRun(a) == At(a, "create") /\ agent[a].todo = {}

_create(a) ==
  /\ MayRun(a)
  /\ container = None /\ made < MaxContainers
  /\ container' = Made(a, TRUE) /\ made' = made + 1
  /\ host' = host \cup agent[a].masks
  /\ agent' = [agent EXCEPT ![a].at = "reach", ![a].checked = made + 1,
                            ![a].masks = {}, ![a].kept = {}]
  /\ UNCHANGED <<world, commands, clobbered, faults>>

(* Another process has made one under the same name.                       *)
NameTaken(a) ==
  /\ MayRun(a)
  /\ container # None
  /\ Refused(a)
  /\ UNCHANGED <<world, host, container, made, commands, clobbered, faults>>

(* docker run fails or times out; a container may be left, or come later.  *)
CreateFails(a, left) ==
  /\ MayRun(a)
  /\ container = None /\ made < MaxContainers
  /\ faults < MaxFaults
  /\ faults' = faults + 1
  /\ \/ left = "nothing" /\ UNCHANGED <<container, made, host>>
     \/ /\ left # "nothing"
        /\ container' = Made(a, left = "running") /\ made' = made + 1
        /\ host' = IF left = "running" THEN host \cup agent[a].masks ELSE host
  /\ Refused(a)
  /\ UNCHANGED <<world, commands, clobbered>>

-----------------------------------------------------------------------------
(* The run tool, prepare(): in the container that has the name by now.     *)
Command(a, where) == [by |-> a, where |-> where, asked |-> agent[a].sandbox, awaited |-> TRUE]

Run(a) ==
  /\ At(a, "ready")
  /\ agent[a].kind = "host" \/ Running
  /\ commands' = commands \cup {Command(a, IF agent[a].kind = "host" THEN "host" ELSE "container")}
  /\ Goto(a, "waiting")
  /\ UNCHANGED <<world, host, container, made, clobbered, faults>>

(* The command has ended, or went with its container.                      *)
Return(a) ==
  /\ At(a, "waiting")
  /\ commands' = {c \in commands : ~(c.by = a /\ c.awaited)}
  /\ Goto(a, "ready")
  /\ UNCHANGED <<world, host, container, made, clobbered, faults>>

(* It is given up after its timeout.  What is killed is the shell on the   *)
(* host, or the docker client; what they had started may go on.            *)
GiveUp(a) ==
  /\ At(a, "waiting")
  /\ commands' = {IF c.by = a THEN [c EXCEPT !.awaited = FALSE] ELSE c : c \in commands}
  /\ Goto(a, "ready")
  /\ UNCHANGED <<world, host, container, made, clobbered, faults>>

(* A command, awaited or not, writes one of the directories.               *)
Writes(c, d) ==
  LET local == c.where = "container" /\ d \in container.masked
  IN  /\ host' = IF local THEN host ELSE host \cup {d}
      /\ clobbered' = IF c.where = "container" /\ ~local /\ d \in host
                      THEN clobbered \cup {<<container.id, d>>} ELSE clobbered
      /\ UNCHANGED <<world, container, made, agent, commands, faults>>

Exit(a) ==
  /\ At(a, "ready")
  /\ agent' = [agent EXCEPT ![a] = Off]
  /\ UNCHANGED <<world, host, container, made, commands, clobbered, faults>>

-----------------------------------------------------------------------------
(* assist --sandbox-wipe                                                   *)
Wipe(a) ==
  /\ At(a, "off")
  /\ docker
  /\ Goto(a, "wipe")
  /\ UNCHANGED <<world, host, container, made, commands, clobbered, faults>>

LookToWipe(a, ok) ==
  /\ At(a, "wipe")
  /\ Answers(ok)
  /\ IF _state(ok) = None THEN Refused(a) ELSE Goto(a, "rm")
  /\ UNCHANGED <<world, host, container, made, commands, clobbered>>

(* docker rm --force --volumes; whether it worked is not looked at.        *)
Remove(a, works) ==
  /\ At(a, "rm")
  /\ Answers(works)
  /\ container' = IF works THEN None ELSE container
  /\ commands' = IF works THEN OnHost ELSE commands
  /\ agent' = [(IF works THEN Disturbed ELSE agent) EXCEPT ![a] = Off]
  /\ UNCHANGED <<world, host, made, clobbered>>

(* The container stops, with the machine or for reasons of its own.        *)
Stops ==
  /\ container # None /\ container.running
  /\ container' = [container EXCEPT !.running = FALSE]
  /\ commands' = OnHost
  /\ agent' = Disturbed
  /\ UNCHANGED <<world, host, made, clobbered, faults>>

(* The user builds a directory of artefacts on the host, ...               *)
HostBuilds(d) ==
  /\ d \notin host
  /\ host' = host \cup {d}
  /\ UNCHANGED <<world, container, made, agent, commands, clobbered, faults>>

(* ... or removes one.                                                     *)
HostCleans(d) ==
  /\ d \in host
  /\ host' = host \ {d}
  /\ agent' = [a \in Agents |-> [agent[a] EXCEPT !.kept = @ \ {d}]]
  /\ UNCHANGED <<world, container, made, commands, clobbered, faults>>

ensure_ready(a) ==
  \/ \E ok \in BOOLEAN : Look(a, ok) \/ _check_reusable(a, ok) \/ Tell(a, ok) \/ _image_exists(a, ok)
  \/ Restart(a) \/ RestartFails(a)
  \/ \E d \in MASKED : Mask(a, d)
  \/ _create(a) \/ NameTaken(a) \/ TimesOut(a)
  \/ \E left \in {"nothing", "created", "running"} : CreateFails(a, left)

Next ==
  \/ \E a \in Agents :
       \/ \E sandbox, network \in BOOLEAN : Start(a, sandbox, network)
       \/ ensure_ready(a)
       \/ Run(a) \/ Return(a) \/ GiveUp(a) \/ Exit(a)
       \/ Wipe(a) \/ (\E ok \in BOOLEAN : LookToWipe(a, ok) \/ Remove(a, ok))
  \/ \E c \in commands, d \in MASKED : Writes(c, d)
  \/ \E d \in MASKED : HostBuilds(d) \/ HostCleans(d)
  \/ Stops

Spec == Init /\ [][Next]_vars

-----------------------------------------------------------------------------
Ready(a) == agent[a].at \in {"ready", "waiting"} /\ agent[a].kind = "docker"

(* Who asks for a sandbox never runs a command on the host, whatever is    *)
(* missing, fails or is removed meanwhile: the session "stops rather than  *)
(* quietly falling back".                                                  *)
AskedIsConfined == \A c \in commands : c.asked => c.where = "container"

(* --sandbox-network is not quietly ignored: as long as the container is   *)
(* one whose network mode docker inspect gave when it was checked, a       *)
(* process that asked for network has it.  And the line at the start says  *)
(* what the container can really reach, which stays true as long as it is  *)
(* that container.  Where inspect failed neither need be so, except that   *)
(* "(no network)" is never said of a container with network.               *)
NetworkAsAsked ==
  \A a \in Agents : Ready(a) =>
    /\ agent[a].told.text = "(no network)" => agent[a].told.id # None
    /\ Id # None =>
         /\ agent[a].network /\ Id = agent[a].checked => container.network
         /\ agent[a].told.id = Id => (agent[a].told.text = "with network") = container.network

(* A process that got ready can run commands, unless the container was     *)
(* stopped or removed, or a start failed, since it began: however many     *)
(* start at once, and whatever an earlier failure left behind.             *)
ReadyIsUsable == \A a \in Agents : Ready(a) /\ agent[a].calm => Running

(* Artefacts that the workspace had all the while _create made the         *)
(* container are not written by any command in it, not even by one that    *)
(* was given up: not when the host removes and rebuilds them later, when   *)
(* other processes look for the same directories, or when the process that *)
(* ran docker never heard that it worked.                                  *)
MaskedIsLocal ==
  \A x \in clobbered : Id = x[1] => x[2] \notin container.had
=============================================================================
