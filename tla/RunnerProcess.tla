---------------------------- MODULE RunnerProcess ----------------------------
(***************************************************************************)
(* The life of a runner process: the init functions register the plugins,  *)
(* the run command and server.Run go from the environment to the accept    *)
(* loop and, after a signal, through the deferred clean-up.  Several       *)
(* processes may be given the same socket path, one after the other or at  *)
(* the same time.                                                          *)
(***************************************************************************)
EXTENDS Integers, Sequences

CONSTANTS
  Procs,        \* runner processes
  Builds,       \* the names of the plugins linked in, in the order of init
  NoName,       \* the empty name
  NoFile,       \* nothing at the socket path
  MaxBacklog    \* bound: connections waiting to be accepted

\* The names a process may find registered.
Plugins == UNION {{b[i] : i \in DOMAIN b} : b \in Builds}

ASSUME ProcsAssumption ==
  /\ NoFile \notin Procs
  /\ Builds \subseteq Seq(Plugins) \ {<<>>}
  /\ MaxBacklog \in Nat

VARIABLES
  registry,  \* pluginRegistry.opts, as the set of names
  todo,      \* the plugins still to register
  profiling, \* the process runs in mode prof
  path,      \* the process whose socket is at the path, or NoFile
  main,      \* the next statement of Run
  open,      \* the listener is open
  done,      \* the channel done is closed
  loop,      \* the accept goroutine
  backlog,   \* connections waiting to be accepted
  met        \* history: the processes that ran at the same time as another

setup == <<registry, todo, profiling>>
vars == <<setup, path, main, open, done, loop, backlog, met>>

Init ==
  /\ registry = [p \in Procs |-> {}]
  /\ todo = [p \in Procs |-> <<>>]
  /\ profiling = [p \in Procs |-> FALSE]
  /\ path = NoFile
  /\ main = [p \in Procs |-> "off"]
  /\ open = [p \in Procs |-> FALSE]
  /\ done = [p \in Procs |-> FALSE]
  /\ loop = [p \in Procs |-> "none"]
  /\ backlog = [p \in Procs |-> 0]
  /\ met = {}

Over == {"exited", "killed", "fatal", "refused"}

Running == {p \in Procs : main[p] \notin Over \cup {"off"}}

Goto(p, next) == main' = [main EXCEPT ![p] = next]

\* The process is gone: its descriptors are closed, its files stay.
End(p, how) ==
  /\ Goto(p, how)
  /\ open' = [open EXCEPT ![p] = FALSE]
  /\ loop' = [loop EXCEPT ![p] = "none"]
  /\ backlog' = [backlog EXCEPT ![p] = 0]
  /\ UNCHANGED <<setup, done, met>>

-----------------------------------------------------------------------------
Start(p) ==
  /\ main[p] = "off"
  /\ met' = IF Running = {} THEN met ELSE met \cup Running \cup {p}
  /\ \E b \in Builds : todo' = [todo EXCEPT ![p] = b]
  /\ Goto(p, "init")
  /\ UNCHANGED <<registry, profiling, path, open, done, loop, backlog>>

\* Mutant: plugins register from goroutines of their own.
RegisterPluginSpawned(p) ==
  /\ p \in Running /\ todo[p] # <<>> /\ Head(todo[p]) # NoName
  /\ registry' = [registry EXCEPT ![p] = @ \cup {Head(todo[p])}]
  /\ todo' = [todo EXCEPT ![p] = Tail(@)]
  /\ Goto(p, IF main[p] = "init" THEN "execute" ELSE main[p])
  /\ UNCHANGED <<profiling, path, open, done, loop, backlog, met>>

\* Mutant: a plugin without a name is registered like any other.
RegisterPluginUnnamed(p) ==
  /\ main[p] = "init"
  /\ todo' = [todo EXCEPT ![p] = Tail(@)]
  /\ IF Head(todo[p]) \in registry[p]
       THEN Goto(p, "refused") /\ UNCHANGED registry
       ELSE /\ registry' = [registry EXCEPT ![p] = @ \cup {Head(todo[p])}]
            /\ Goto(p, IF Len(todo[p]) = 1 THEN "execute" ELSE "init")
  /\ UNCHANGED <<profiling, path, open, done, loop, backlog, met>>

\* The init functions, one after the other: a plugin without a name or with one
\* that is taken is not registered, and log.Fatalf ends the process.
RegisterPlugin(p) ==
  /\ main[p] = "init"
  /\ todo' = [todo EXCEPT ![p] = Tail(@)]
  /\ IF Head(todo[p]) \in registry[p] \cup {NoName}
       THEN Goto(p, "refused") /\ UNCHANGED registry
       ELSE /\ registry' = [registry EXCEPT ![p] = @ \cup {Head(todo[p])}]
            /\ Goto(p, IF Len(todo[p]) = 1 THEN "execute" ELSE "init")
  /\ UNCHANGED <<profiling, path, open, done, loop, backlog, met>>

\* The run command: mode prod needs its log file, mode prof its profile.
Execute(p) ==
  /\ main[p] = "execute"
  /\ \E mode \in {"dev", "prod", "prof"} :
       \/ /\ Goto(p, "configure")
          /\ profiling' = [profiling EXCEPT ![p] = (mode = "prof")]
       \/ /\ mode # "dev"
          /\ Goto(p, "refused")
          /\ UNCHANGED profiling
  /\ UNCHANGED <<registry, todo, path, open, done, loop, backlog, met>>

\* getConfCacheTTL and getSockAddr, Fatalf when one of them is no good.
Configure(p) ==
  /\ main[p] = "configure"
  /\ Goto(p, "clean") \/ Goto(p, "refused")
  /\ UNCHANGED <<setup, path, open, done, loop, backlog, met>>

\* Mutant: the file of a process that was killed is left in place.
CleanNothing(p) ==
  /\ main[p] = "clean"
  /\ Goto(p, "listen")
  /\ UNCHANGED <<setup, path, open, done, loop, backlog, met>>

\* os.RemoveAll before listening, whoever created the file; Fatalf when the file
\* system does not let it.
Clean(p) ==
  /\ main[p] = "clean"
  /\ \/ path' = NoFile /\ Goto(p, "listen")
     \/ UNCHANGED path /\ Goto(p, "refused")
  /\ UNCHANGED <<setup, open, done, loop, backlog, met>>

\* net.Listen binds the path, which must be free.
Listen(p) ==
  /\ main[p] = "listen"
  /\ path = NoFile
  /\ path' = p
  /\ open' = [open EXCEPT ![p] = TRUE]
  /\ Goto(p, "chmod")
  /\ UNCHANGED <<setup, done, loop, backlog, met>>

\* os.Chmod works on the path, not on the listener.
Chmod(p) ==
  /\ main[p] = "chmod"
  /\ path # NoFile
  /\ Goto(p, "notify")
  /\ UNCHANGED <<setup, path, open, done, loop, backlog, met>>

\* log.Fatalf ends the process without the deferred calls.
Fatal(p) ==
  /\ \/ main[p] = "listen" /\ path # NoFile
     \/ main[p] = "chmod" /\ path = NoFile
  /\ End(p, "fatal")
  /\ UNCHANGED path

\* signal.Notify, and the accept goroutine starts
Notify(p) ==
  /\ main[p] = "notify"
  /\ Goto(p, "wait")
  /\ loop' = [loop EXCEPT ![p] = "accept"]
  /\ UNCHANGED <<setup, path, open, done, backlog, met>>

\* <-quit
Signal(p) ==
  /\ main[p] = "wait"
  /\ Goto(p, "quit")
  /\ UNCHANGED <<setup, path, open, done, loop, backlog, met>>

\* A crash, SIGKILL, or a signal before Notify.
Kill(p) ==
  /\ p \in Running
  /\ End(p, "killed")
  /\ UNCHANGED path

\* Mutant: done stays open while the listener is closed.
CloseDoneForgotten(p) ==
  /\ main[p] = "quit"
  /\ Goto(p, "close")
  /\ UNCHANGED <<setup, path, open, done, loop, backlog, met>>

CloseDone(p) ==
  /\ main[p] = "quit"
  /\ done' = [done EXCEPT ![p] = TRUE]
  /\ Goto(p, "close")
  /\ UNCHANGED <<setup, path, open, loop, backlog, met>>

\* Mutant: the clean-up waits for the accept goroutine.
CloseListenerJoins(p) ==
  /\ main[p] = "close"
  /\ loop[p] = "none"
  /\ path' = NoFile
  /\ open' = [open EXCEPT ![p] = FALSE]
  /\ backlog' = [backlog EXCEPT ![p] = 0]
  /\ Goto(p, "remove")
  /\ UNCHANGED <<setup, done, loop, met>>

\* Deferred l.Close unlinks the path it was bound to and closes the socket.
CloseListener(p) ==
  /\ main[p] = "close"
  /\ path' = NoFile
  /\ open' = [open EXCEPT ![p] = FALSE]
  /\ backlog' = [backlog EXCEPT ![p] = 0]
  /\ Goto(p, "remove")
  /\ UNCHANGED <<setup, done, loop, met>>

\* Deferred os.RemoveAll, whose error is only logged; Run returns and, without a
\* profile, the process exits.
Remove(p) ==
  /\ main[p] = "remove"
  /\ path' \in {path, NoFile}
  /\ \/ ~profiling[p] /\ End(p, "exited")
     \/ /\ profiling[p] /\ Goto(p, "profile")
        /\ UNCHANGED <<setup, open, done, loop, backlog, met>>

\* The deferred memory profile; Fatalf when it cannot be written.
Profile(p) ==
  /\ main[p] = "profile"
  /\ End(p, "exited") \/ End(p, "refused")
  /\ UNCHANGED path

-----------------------------------------------------------------------------
\* APISIX connects to whoever listens at the path (external).
Connect(p) ==
  /\ path = p /\ open[p]
  /\ backlog[p] < MaxBacklog
  /\ backlog' = [backlog EXCEPT ![p] = @ + 1]
  /\ UNCHANGED <<setup, path, main, open, done, loop, met>>

\* l.Accept returns a connection.
Accept(p) ==
  /\ loop[p] = "accept"
  /\ open[p] /\ backlog[p] > 0
  /\ backlog' = [backlog EXCEPT ![p] = @ - 1]
  /\ loop' = [loop EXCEPT ![p] = "conn"]
  /\ UNCHANGED <<setup, path, main, open, done, met>>

\* l.Accept returns an error although the listener is open: the process is, for
\* example, out of file descriptors.
AcceptFails(p) ==
  /\ loop[p] = "accept" /\ open[p]
  /\ loop' = [loop EXCEPT ![p] = "failed"]
  /\ UNCHANGED <<setup, path, main, open, done, backlog, met>>

\* l.Accept returns the error of a closed listener.
AcceptClosed(p) ==
  /\ loop[p] = "accept" /\ ~open[p]
  /\ loop' = [loop EXCEPT ![p] = "closed"]
  /\ UNCHANGED <<setup, path, main, open, done, backlog, met>>

\* Mutant: the loop returns on an error instead of going on.
SelectReturns(p) ==
  /\ loop[p] \in {"conn", "failed", "closed"}
  /\ loop' = [loop EXCEPT ![p] = IF done[p] \/ loop[p] # "conn" THEN "none" ELSE "accept"]
  /\ UNCHANGED <<setup, path, main, open, done, backlog, met>>

\* The select on done, then "accept:" is logged or handleConn started.
Select(p) ==
  /\ loop[p] \in {"conn", "failed", "closed"}
  /\ loop' = [loop EXCEPT ![p] = IF done[p] THEN "none" ELSE "accept"]
  /\ UNCHANGED <<setup, path, main, open, done, backlog, met>>

-----------------------------------------------------------------------------
Main(p) ==
  \/ RegisterPlugin(p) \/ Execute(p) \/ Configure(p) \/ Clean(p)
  \/ Listen(p) \/ Chmod(p) \/ Fatal(p) \/ Notify(p)
  \/ CloseDone(p) \/ CloseListener(p) \/ Remove(p) \/ Profile(p)

Loop(p) == Accept(p) \/ AcceptClosed(p) \/ Select(p)

Next ==
  \E p \in Procs :
    \/ Start(p) \/ Main(p) \/ Loop(p) \/ AcceptFails(p)
    \/ Signal(p) \/ Kill(p) \/ Connect(p)

Spec == Init /\ [][Next]_vars

\* Both goroutines of a process run, and the errors of an open listener are
\* temporary: Accept does not fail for ever.
FairSpec ==
  /\ Spec
  /\ \A p \in Procs : WF_vars(Main(p)) /\ WF_vars(Loop(p)) /\ SF_vars(Accept(p))

-----------------------------------------------------------------------------
(* Type correctness of the registries, which hold no unnamed plugin        *)
(* (RegisterPlugin: ErrMissingName), the socket path and the processes.    *)
TypeOK ==
  /\ registry \in [Procs -> SUBSET (Plugins \ {NoName})]
  /\ todo \in [Procs -> Seq(Plugins)]
  /\ path \in Procs \cup {NoFile}
  /\ main \in [Procs -> Over \cup {"off", "init", "execute", "configure",
                                   "clean", "listen", "chmod", "notify", "wait",
                                   "quit", "close", "remove", "profile"}]
  /\ profiling \in [Procs -> BOOLEAN]
  /\ open \in [Procs -> BOOLEAN]
  /\ done \in [Procs -> BOOLEAN]
  /\ loop \in [Procs -> {"none", "accept", "conn", "failed", "closed"}]
  /\ backlog \in [Procs -> 0 .. MaxBacklog]
  /\ met \subseteq Procs

(***************************************************************************)
(* A process that never ran beside another one listens, whatever the ones  *)
(* before it left behind: the file of a killed process does not make       *)
(* Listen or Chmod fail (the RemoveAll before net.Listen).                 *)
(***************************************************************************)
NeverFatal == \A p \in Procs : main[p] = "fatal" => p \in met

(***************************************************************************)
(* The registry is complete before the first connection is accepted, and   *)
(* never changes afterwards: findPlugin reads the map without the mutex    *)
(* that RegisterPlugin takes (the comment of RegisterPlugin in pkg/plugin: *)
(* to be called before runner.Run).                                        *)
(***************************************************************************)
RegistryFrozen ==
  [][\A p \in Procs : loop[p] # "none" => registry'[p] = registry[p]]_vars

(***************************************************************************)
(* The accept loop sees a closed listener only after done: an exiting      *)
(* process neither logs "use of closed network connection" nor spins.      *)
(***************************************************************************)
NoAcceptError == \A p \in Procs : loop[p] = "closed" => done[p]

(***************************************************************************)
(* The deferred clean-up of a process removes its own socket file and not  *)
(* that of a process that started meanwhile (the comment in Run: "clean up *)
(* sock file created by me").                                              *)
(***************************************************************************)
CleansOwnFile ==
  [][\A p \in Procs :
       CloseListener(p) \/ Remove(p) => path \in {p, NoFile}]_vars

(***************************************************************************)
(* A full backlog drains, or the process ends: neither a connection nor an *)
(* error of Accept stops the accept loop of a serving process, which logs  *)
(* the error and goes on (the continue in Run).                            *)
(***************************************************************************)
BacklogDrains ==
  \A p \in Procs :
    backlog[p] = MaxBacklog ~> (backlog[p] < MaxBacklog \/ main[p] \in Over)

(***************************************************************************)
(* A process that got its signal exits, connections or not.                *)
(***************************************************************************)
QuitEnds == \A p \in Procs : main[p] = "quit" ~> main[p] \in Over
=============================================================================
