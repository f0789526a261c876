-------------------------------- MODULE Desktop --------------------------------
(***************************************************************************)
(* The desktop process (src-tauri): the application router, the container  *)
(* shells, the background workers, the operations on deployments, the      *)
(* commands with a time limit, and the release commands of deploy-cli that *)
(* its operations run; and the port forwards of the Harpoon process, by    *)
(* which it reaches what is deployed.  They share no state of their own -  *)
(* each has its statics, its locks and its threads - and what they have in *)
(* common (Docker, the records, the runtime) each module has as its        *)
(* surroundings.  So their behaviours are interleavings  *)
(* of behaviours of the parts, and it is enough to look at one part at a   *)
(* time: `part` says which one moves, the others stay as they began.       *)
(***************************************************************************)
EXTENDS Router, Shell, Workers, Operations, Commands, Releases, Forwards

CONSTANT Parts \* the parts to look at

ASSUME PartsAssumption ==
    Parts \subseteq {"router", "shell", "workers", "operations", "commands", "releases",
               "forwards"}

VARIABLE part

desktopVars == <<part, routerVars, shellVars, workerVars, opVars, cmdVars, relVars,
                 forwardVars>>

DesktopInit ==
    /\ part \in Parts
    /\ RouterInit /\ ShellInit /\ WorkersInit /\ OperationsInit /\ CommandsInit
    /\ ReleasesInit /\ ForwardsInit
    \* a part that does not move begins in one state only
    /\ part # "router" => ~table.blind /\ \A p \in AppPorts : ~Leased(p)
    /\ part # "workers" => kind = "refresh" /\ \A c \in Calls : calls[c].op = "start"
    /\ part # "operations" => harpoon = Off /\ gate.deploy /\ ~gate.triggered
    /\ part # "forwards" => published = Nowhere /\ ~foreign /\ ~orderly
    /\ part # "commands" => flow = "read" /\ ~project.stack /\ ~project.ports

DesktopNext ==
    /\ UNCHANGED part
    /\ \/ /\ part = "router" /\ RouterNext
          /\ UNCHANGED <<shellVars, workerVars, opVars, cmdVars, relVars, forwardVars>>
       \/ /\ part = "shell" /\ ShellNext
          /\ UNCHANGED <<routerVars, workerVars, opVars, cmdVars, relVars, forwardVars>>
       \/ /\ part = "workers" /\ WorkersNext
          /\ UNCHANGED <<routerVars, shellVars, opVars, cmdVars, relVars, forwardVars>>
       \/ /\ part = "operations" /\ OperationsNext
          /\ UNCHANGED <<routerVars, shellVars, workerVars, cmdVars, relVars, forwardVars>>
       \/ /\ part = "commands" /\ CommandsNext
          /\ UNCHANGED <<routerVars, shellVars, workerVars, opVars, relVars, forwardVars>>
       \/ /\ part = "releases" /\ ReleasesNext
          /\ UNCHANGED <<routerVars, shellVars, workerVars, opVars, cmdVars, forwardVars>>
       \/ /\ part = "forwards" /\ ForwardsNext
          /\ UNCHANGED <<routerVars, shellVars, workerVars, opVars, cmdVars, relVars>>

(* The threads of the desktop run whenever they can: each worker's, each   *)
(* call of the window.  A shell's threads wait for a lock that is free     *)
(* again and again, and get it.  The clock runs; the children of the       *)
(* desktop owe nothing.  The timer of the forwards goes off again and      *)
(* again, and the guest runs the commands that reach it.                   *)
DesktopFairness ==
    /\ \A s \in Shells :
          /\ SF_shellVars(part = "shell" /\ (ReaderStarts(s) \/ NoReader(s)))
          /\ SF_shellVars(part = "shell" /\ ReaderActs(s))
          /\ SF_shellVars(part = "shell" /\ CloseActs(s))
    /\ WF_shellVars(part = "shell" /\ Written)
    /\ \A c \in Calls : /\ WF_workerVars(part = "workers" /\ Works(c))
                        /\ WF_workerVars(part = "workers" /\ Proceeds(c))
    /\ WF_cmdVars(part = "commands" /\ Start)
    /\ WF_cmdVars(part = "commands" /\ Drain)
    /\ WF_cmdVars(part = "commands" /\ TimePasses)
    /\ WF_cmdVars(part = "commands" /\ TimeUp)
    /\ WF_cmdVars(part = "commands" /\ (TimedOut \/ Ended))
    /\ WF_forwardVars(part = "forwards" /\ Listens)
    /\ WF_forwardVars(part = "forwards" /\ Closed)
    /\ \A s \in Slots : WF_forwardVars(part = "forwards" /\ Commanded(s))

DesktopSpec == DesktopInit /\ [][DesktopNext]_desktopVars /\ DesktopFairness
=============================================================================
