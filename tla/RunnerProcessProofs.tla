------------------------- MODULE RunnerProcessProofs -------------------------
(***************************************************************************)
(* Proofs about RunnerProcess for any number of processes on the path, any *)
(* set of builds and any backlog.                                          *)
(***************************************************************************)
EXTENDS RunnerProcess, SequenceTheorems, TLAPS

(* Registering goes on only while there is something to register.          *)
InitInv == \A p \in Procs : main[p] = "init" => todo[p] # <<>>

(* The accept goroutine lives between signal.Notify and the exit; until    *)
(* the deferred Close the listener is open, and Close comes after done.    *)
LoopInv ==
  \A p \in Procs :
    /\ loop[p] # "none" =>
         main[p] \in {"wait", "quit", "close", "remove", "profile"}
    /\ main[p] \in {"chmod", "notify", "wait", "quit"} => open[p]
    /\ main[p] \in {"close", "remove", "profile"} => done[p]
    /\ loop[p] = "closed" => done[p]

(* A process that never met another is the only one running, and the path  *)
(* is as it left it.                                                       *)
AloneInv ==
  \A p \in Procs \ met :
    /\ p \in Running => Running = {p}
    /\ main[p] = "listen" => path = NoFile
    /\ main[p] = "chmod" => path = p
    /\ main[p] # "fatal"

IInv == TypeOK /\ InitInv /\ LoopInv /\ AloneInv
-----------------------------------------------------------------------------
LEMMA IInvInit == Init => IInv
BY ProcsAssumption
DEF Init, IInv, TypeOK, InitInv, LoopInv, AloneInv, Running, Over

(* Each step keeps the types; a process in its init functions has a plugin *)
(* left to register, whose name it takes from the build.                   *)
LEMMA TypeStep == TypeOK /\ InitInv /\ [Next]_vars => TypeOK'
<1> SUFFICES ASSUME TypeOK, InitInv, [Next]_vars PROVE TypeOK'
  OBVIOUS
<1> USE DEF TypeOK, Over
<1>0. MaxBacklog \in Nat /\ 0 \in 0 .. MaxBacklog
  BY ProcsAssumption
<1>1. ASSUME NEW p \in Procs, Start(p) PROVE TypeOK'
  <2>1. PICK b \in Builds : todo' = [todo EXCEPT ![p] = b]
    BY <1>1 DEF Start
  <2>2. todo' \in [Procs -> Seq(Plugins)]
    BY <2>1, ProcsAssumption
  <2> QED
    BY <1>1, <2>2 DEF Start, Goto, Running
<1>2. ASSUME NEW p \in Procs, RegisterPlugin(p) PROVE TypeOK'
  <2>1. todo[p] # <<>> /\ todo[p] \in Seq(Plugins)
    BY <1>2 DEF InitInv, RegisterPlugin
  <2>2. Head(todo[p]) \in Plugins /\ Tail(todo[p]) \in Seq(Plugins)
    BY <2>1
  <2>3. todo' \in [Procs -> Seq(Plugins)]
    BY <1>2, <2>2 DEF RegisterPlugin
  <2>4. registry' \in [Procs -> SUBSET (Plugins \ {NoName})]
    <3>1. Head(todo[p]) # NoName =>
            registry[p] \cup {Head(todo[p])} \in SUBSET (Plugins \ {NoName})
      BY <2>2
    <3>2. \/ registry' = registry
          \/ /\ Head(todo[p]) # NoName
             /\ registry' = [registry EXCEPT ![p] = registry[p] \cup {Head(todo[p])}]
      BY <1>2 DEF RegisterPlugin
    <3> QED
      BY <3>1, <3>2
  <2> QED
    BY <1>2, <2>3, <2>4 DEF RegisterPlugin, Goto
<1>3. ASSUME NEW p \in Procs, Execute(p) PROVE TypeOK'
  BY <1>3 DEF Execute, Goto, setup
<1>4. ASSUME NEW p \in Procs, Configure(p) PROVE TypeOK'
  BY <1>4 DEF Configure, Goto, setup
<1>5. ASSUME NEW p \in Procs, Clean(p) PROVE TypeOK'
  BY <1>5 DEF Clean, Goto, setup
<1>6. ASSUME NEW p \in Procs, Listen(p) PROVE TypeOK'
  BY <1>6 DEF Listen, Goto, setup
<1>7. ASSUME NEW p \in Procs, Chmod(p) PROVE TypeOK'
  BY <1>7 DEF Chmod, Goto, setup
<1>8. ASSUME NEW p \in Procs, Fatal(p) PROVE TypeOK'
  BY <1>0, <1>8 DEF Fatal, End, Goto, setup
<1>9. ASSUME NEW p \in Procs, Notify(p) PROVE TypeOK'
  BY <1>9 DEF Notify, Goto, setup
<1>10. ASSUME NEW p \in Procs, Signal(p) PROVE TypeOK'
  BY <1>10 DEF Signal, Goto, setup
<1>11. ASSUME NEW p \in Procs, Kill(p) PROVE TypeOK'
  BY <1>0, <1>11 DEF Kill, End, Goto, setup
<1>12. ASSUME NEW p \in Procs, CloseDone(p) PROVE TypeOK'
  BY <1>12 DEF CloseDone, Goto, setup
<1>13. ASSUME NEW p \in Procs, CloseListener(p) PROVE TypeOK'
  BY <1>0, <1>13 DEF CloseListener, Goto, setup
<1>14. ASSUME NEW p \in Procs, Remove(p) PROVE TypeOK'
  <2>1. CASE End(p, "exited")
    BY <1>0, <1>14, <2>1 DEF Remove, End, Goto, setup
  <2>2. CASE Goto(p, "profile") /\ UNCHANGED <<setup, open, done, loop, backlog, met>>
    BY <1>14, <2>2 DEF Remove, Goto, setup
  <2> QED
    BY <1>14, <2>1, <2>2 DEF Remove
<1>15. ASSUME NEW p \in Procs, Profile(p) PROVE TypeOK'
  <2>1. CASE End(p, "exited")
    BY <1>0, <1>15, <2>1 DEF Profile, End, Goto, setup
  <2>2. CASE End(p, "refused")
    BY <1>0, <1>15, <2>2 DEF Profile, End, Goto, setup
  <2> QED
    BY <1>15, <2>1, <2>2 DEF Profile
<1>16. ASSUME NEW p \in Procs, Connect(p) PROVE TypeOK'
  BY <1>0, <1>16 DEF Connect, Goto, setup
<1>17. ASSUME NEW p \in Procs, Accept(p) PROVE TypeOK'
  <2>1. backlog' \in [Procs -> 0 .. MaxBacklog]
    <3>1. CASE backlog' = backlog
      BY <3>1
    <3>2. CASE backlog[p] > 0 /\ backlog' = [backlog EXCEPT ![p] = backlog[p] - 1]
      BY <1>0, <3>2
    <3> QED
      BY <1>17, <3>1, <3>2 DEF Accept
  <2> QED
    BY <1>17, <2>1 DEF Accept, setup
<1>18. ASSUME NEW p \in Procs, AcceptFails(p) \/ AcceptClosed(p) PROVE TypeOK'
  BY <1>18 DEF AcceptFails, AcceptClosed, Goto, setup
<1>19. ASSUME NEW p \in Procs, Select(p) PROVE TypeOK'
  BY <1>19 DEF Select, Goto, setup
<1>20. CASE UNCHANGED vars
  BY <1>20 DEF vars, setup
<1> QED
  BY <1>1, <1>2, <1>3, <1>4, <1>5, <1>6, <1>7, <1>8, <1>9, <1>10, <1>11,
     <1>12, <1>13, <1>14, <1>15, <1>16, <1>17, <1>18, <1>19, <1>20
  DEF Next, Main, Loop

(* The last of the init functions leads to main.                           *)
LEMMA InitStep == TypeOK /\ InitInv /\ [Next]_vars => InitInv'
<1> SUFFICES ASSUME TypeOK, InitInv, [Next]_vars PROVE InitInv'
  OBVIOUS
<1> USE DEF TypeOK, Over, InitInv
<1>1. ASSUME NEW p \in Procs, Start(p) PROVE InitInv'
  BY <1>1, ProcsAssumption DEF Start, Goto
<1>2. ASSUME NEW p \in Procs, RegisterPlugin(p) PROVE InitInv'
  <2>1. todo[p] # <<>> /\ todo[p] \in Seq(Plugins)
    BY <1>2 DEF RegisterPlugin
  <2>2. Len(todo[p]) # 1 => Tail(todo[p]) # <<>>
    <3>1. Len(Tail(todo[p])) = Len(todo[p]) - 1
      BY <2>1, HeadTailProperties
    <3>2. Len(<<>>) = 0 /\ Len(todo[p]) \in Nat
      BY <2>1, EmptySeq, LenProperties
    <3>3. Tail(todo[p]) = <<>> => Len(Tail(todo[p])) = 0
      BY <3>2, Zenon
    <3> QED
      BY <3>1, <3>2, <3>3
  <2> QED
    BY <1>2, <2>2 DEF RegisterPlugin, Goto
<1>3. ASSUME NEW p \in Procs, Execute(p) PROVE InitInv'
  BY <1>3 DEF Execute, Goto, setup
<1>4. ASSUME NEW p \in Procs, Configure(p) PROVE InitInv'
  BY <1>4 DEF Configure, Goto, setup
<1>5. ASSUME NEW p \in Procs, Clean(p) PROVE InitInv'
  BY <1>5 DEF Clean, Goto, setup
<1>6. ASSUME NEW p \in Procs, Listen(p) PROVE InitInv'
  BY <1>6 DEF Listen, Goto, setup
<1>7. ASSUME NEW p \in Procs, Chmod(p) PROVE InitInv'
  BY <1>7 DEF Chmod, Goto, setup
<1>8. ASSUME NEW p \in Procs, Fatal(p) PROVE InitInv'
  BY <1>8 DEF Fatal, End, Goto, setup
<1>9. ASSUME NEW p \in Procs, Notify(p) PROVE InitInv'
  BY <1>9 DEF Notify, Goto, setup
<1>10. ASSUME NEW p \in Procs, Signal(p) PROVE InitInv'
  BY <1>10 DEF Signal, Goto, setup
<1>11. ASSUME NEW p \in Procs, Kill(p) PROVE InitInv'
  BY <1>11 DEF Kill, End, Goto, setup
<1>12. ASSUME NEW p \in Procs, CloseDone(p) PROVE InitInv'
  BY <1>12 DEF CloseDone, Goto, setup
<1>13. ASSUME NEW p \in Procs, CloseListener(p) PROVE InitInv'
  BY <1>13 DEF CloseListener, Goto, setup
<1>14. ASSUME NEW p \in Procs, Remove(p) PROVE InitInv'
  BY <1>14 DEF Remove, End, Goto, setup
<1>15. ASSUME NEW p \in Procs, Profile(p) PROVE InitInv'
  BY <1>15 DEF Profile, End, Goto, setup
<1>16. ASSUME NEW p \in Procs, Connect(p) PROVE InitInv'
  BY <1>16 DEF Connect, Goto, setup
<1>17. ASSUME NEW p \in Procs, Accept(p) PROVE InitInv'
  BY <1>17 DEF Accept, Goto, setup
<1>18. ASSUME NEW p \in Procs, AcceptFails(p) \/ AcceptClosed(p) PROVE InitInv'
  BY <1>18 DEF AcceptFails, AcceptClosed, Goto, setup
<1>19. ASSUME NEW p \in Procs, Select(p) PROVE InitInv'
  BY <1>19 DEF Select, Goto, setup
<1>20. CASE UNCHANGED vars
  BY <1>20 DEF vars, setup
<1> QED
  BY <1>1, <1>2, <1>3, <1>4, <1>5, <1>6, <1>7, <1>8, <1>9, <1>10, <1>11,
     <1>12, <1>13, <1>14, <1>15, <1>16, <1>17, <1>18, <1>19, <1>20
  DEF Next, Main, Loop

(* The accept goroutine, the listener and the channel done are set up and  *)
(* torn down in the order of the statements of Run.                        *)
LEMMA LoopStep == TypeOK /\ LoopInv /\ [Next]_vars => LoopInv'
<1> SUFFICES ASSUME TypeOK, LoopInv, [Next]_vars PROVE LoopInv'
  OBVIOUS
<1> USE DEF TypeOK, Over, LoopInv
<1>1. ASSUME NEW p \in Procs, Start(p) PROVE LoopInv'
  BY <1>1 DEF Start, Goto, setup
<1>2. ASSUME NEW p \in Procs, RegisterPlugin(p) PROVE LoopInv'
  <2>1. PICK next \in {"refused", "execute", "init"} : Goto(p, next)
    BY <1>2 DEF RegisterPlugin, Goto
  <2>2. main[p] = "init" /\ UNCHANGED <<open, done, loop>>
    BY <1>2 DEF RegisterPlugin
  <2> QED
    BY <2>1, <2>2 DEF Goto
<1>3. ASSUME NEW p \in Procs, Execute(p) PROVE LoopInv'
  BY <1>3 DEF Execute, Goto, setup
<1>4. ASSUME NEW p \in Procs, Configure(p) PROVE LoopInv'
  BY <1>4 DEF Configure, Goto, setup
<1>5. ASSUME NEW p \in Procs, Clean(p) PROVE LoopInv'
  BY <1>5 DEF Clean, Goto, setup
<1>6. ASSUME NEW p \in Procs, Listen(p) PROVE LoopInv'
  BY <1>6 DEF Listen, Goto, setup
<1>7. ASSUME NEW p \in Procs, Chmod(p) PROVE LoopInv'
  BY <1>7 DEF Chmod, Goto, setup
<1>8. ASSUME NEW p \in Procs, Fatal(p) PROVE LoopInv'
  BY <1>8 DEF Fatal, End, Goto, setup
<1>9. ASSUME NEW p \in Procs, Notify(p) PROVE LoopInv'
  BY <1>9 DEF Notify, Goto, setup
<1>10. ASSUME NEW p \in Procs, Signal(p) PROVE LoopInv'
  BY <1>10 DEF Signal, Goto, setup
<1>11. ASSUME NEW p \in Procs, Kill(p) PROVE LoopInv'
  BY <1>11 DEF Kill, End, Goto, setup
<1>12. ASSUME NEW p \in Procs, CloseDone(p) PROVE LoopInv'
  BY <1>12 DEF CloseDone, Goto, setup
<1>13. ASSUME NEW p \in Procs, CloseListener(p) PROVE LoopInv'
  BY <1>13 DEF CloseListener, Goto, setup
<1>14. ASSUME NEW p \in Procs, Remove(p) PROVE LoopInv'
  BY <1>14 DEF Remove, End, Goto, setup
<1>15. ASSUME NEW p \in Procs, Profile(p) PROVE LoopInv'
  BY <1>15 DEF Profile, End, Goto, setup
<1>16. ASSUME NEW p \in Procs, Connect(p) PROVE LoopInv'
  BY <1>16 DEF Connect, Goto, setup
<1>17. ASSUME NEW p \in Procs, Accept(p) PROVE LoopInv'
  BY <1>17 DEF Accept, Goto, setup
<1>18. ASSUME NEW p \in Procs, AcceptFails(p) \/ AcceptClosed(p) PROVE LoopInv'
  BY <1>18 DEF AcceptFails, AcceptClosed, Goto, setup
<1>19. ASSUME NEW p \in Procs, Select(p) PROVE LoopInv'
  BY <1>19 DEF Select, Goto, setup
<1>20. CASE UNCHANGED vars
  BY <1>20 DEF vars, setup
<1> QED
  BY <1>1, <1>2, <1>3, <1>4, <1>5, <1>6, <1>7, <1>8, <1>9, <1>10, <1>11,
     <1>12, <1>13, <1>14, <1>15, <1>16, <1>17, <1>18, <1>19, <1>20
  DEF Next, Main, Loop

(* What a running process may do next without disturbing the ones alone:   *)
(* one that is alone has the path to itself.                               *)
LEMMA AloneGoto ==
  ASSUME TypeOK, AloneInv,
         NEW p \in Running, NEW next, next # "off",
         main' = [main EXCEPT ![p] = next], met' = met,
         p \notin met =>
           /\ next = "listen" => path' = NoFile
           /\ next = "chmod" => path' = p
           /\ next # "fatal"
  PROVE  AloneInv'
<1> SUFFICES ASSUME NEW q \in Procs \ met
             PROVE  /\ (q \in Running)' => Running' = {q}
                    /\ main'[q] = "listen" => path' = NoFile
                    /\ main'[q] = "chmod" => path' = q
                    /\ main'[q] # "fatal"
  BY DEF AloneInv
<1>1. Running' \subseteq Running
  BY DEF Running, TypeOK
<1>2. CASE q = p
  BY <1>1, <1>2 DEF AloneInv, Running, TypeOK
<1>3. CASE q # p
  <2>1. q \notin Running
    BY <1>3 DEF AloneInv
  <2>2. main'[q] = main[q]
    BY <1>3 DEF TypeOK, Running
  <2> QED
    BY <1>1, <2>1, <2>2 DEF AloneInv, Running, Over
<1> QED
  BY <1>2, <1>3

(* A process that is not alone any more is in met.                         *)
LEMMA AloneStep == TypeOK /\ AloneInv /\ [Next]_vars => AloneInv'
<1> SUFFICES ASSUME TypeOK, AloneInv, [Next]_vars PROVE AloneInv'
  OBVIOUS
<1> USE DEF TypeOK, Over, AloneInv, Running
<1>1. ASSUME NEW p \in Procs, Start(p) PROVE AloneInv'
  BY <1>1 DEF Start, Goto, setup
<1>2. ASSUME NEW p \in Procs, RegisterPlugin(p) PROVE AloneInv'
  <2>1. PICK next \in {"refused", "execute", "init"} : Goto(p, next)
    BY <1>2 DEF RegisterPlugin, Goto
  <2> QED
    BY <1>2, <2>1, AloneGoto DEF RegisterPlugin, Goto, setup
<1>3. ASSUME NEW p \in Procs, Execute(p) PROVE AloneInv'
  <2>1. PICK next \in {"configure", "refused"} : Goto(p, next)
    BY <1>3 DEF Execute, Goto
  <2> QED
    BY <1>3, <2>1, AloneGoto DEF Execute, Goto, setup
<1>4. ASSUME NEW p \in Procs, Configure(p) PROVE AloneInv'
  <2>1. PICK next \in {"clean", "refused"} : Goto(p, next)
    BY <1>4 DEF Configure, Goto
  <2> QED
    BY <1>4, <2>1, AloneGoto DEF Configure, Goto, setup
<1>5. ASSUME NEW p \in Procs, Clean(p) PROVE AloneInv'
  <2>1. PICK next \in {"listen", "refused"} :
          Goto(p, next) /\ (next = "listen" => path' = NoFile)
    BY <1>5 DEF Clean, Goto
  <2> QED
    BY <1>5, <2>1, AloneGoto DEF Clean, Goto, setup
<1>6. ASSUME NEW p \in Procs, Listen(p) PROVE AloneInv'
  BY <1>6, AloneGoto DEF Listen, Goto, setup
<1>7. ASSUME NEW p \in Procs, Chmod(p) PROVE AloneInv'
  BY <1>7, AloneGoto DEF Chmod, Goto, setup
<1>8. ASSUME NEW p \in Procs, Fatal(p) PROVE AloneInv'
  BY <1>8, ProcsAssumption DEF Fatal, End, Goto, setup
<1>9. ASSUME NEW p \in Procs, Notify(p) PROVE AloneInv'
  BY <1>9, AloneGoto DEF Notify, Goto, setup
<1>10. ASSUME NEW p \in Procs, Signal(p) PROVE AloneInv'
  BY <1>10, AloneGoto DEF Signal, Goto, setup
<1>11. ASSUME NEW p \in Procs, Kill(p) PROVE AloneInv'
  BY <1>11, AloneGoto DEF Kill, End, Goto, setup
<1>12. ASSUME NEW p \in Procs, CloseDone(p) PROVE AloneInv'
  BY <1>12, AloneGoto DEF CloseDone, Goto, setup
<1>13. ASSUME NEW p \in Procs, CloseListener(p) PROVE AloneInv'
  BY <1>13, ProcsAssumption DEF CloseListener, Goto, setup
<1>14. ASSUME NEW p \in Procs, Remove(p) PROVE AloneInv'
  <2>1. PICK next \in {"exited", "profile"} : Goto(p, next)
    BY <1>14 DEF Remove, End, Goto
  <2>2. main[p] = "remove" /\ met' = met
    BY <1>14 DEF Remove, End
  <2>3. p \in Running /\ main' = [main EXCEPT ![p] = next]
    BY <2>1, <2>2 DEF Goto
  <2>4. next \notin {"off", "listen", "chmod", "fatal"}
    BY <2>1
  <2> HIDE DEF AloneInv, TypeOK, Running, Over
  <2> QED
    BY <2>2, <2>3, <2>4, AloneGoto
<1>15. ASSUME NEW p \in Procs, Profile(p) PROVE AloneInv'
  <2>1. PICK next \in {"exited", "refused"} : Goto(p, next)
    BY <1>15 DEF Profile, End, Goto
  <2> QED
    BY <1>15, <2>1, AloneGoto DEF Profile, End, Goto, setup
<1>16. ASSUME NEW p \in Procs, Connect(p) PROVE AloneInv'
  BY <1>16 DEF Connect, Goto, setup
<1>17. ASSUME NEW p \in Procs, Accept(p) PROVE AloneInv'
  BY <1>17 DEF Accept, Goto, setup
<1>18. ASSUME NEW p \in Procs, AcceptFails(p) \/ AcceptClosed(p) PROVE AloneInv'
  BY <1>18 DEF AcceptFails, AcceptClosed, Goto, setup
<1>19. ASSUME NEW p \in Procs, Select(p) PROVE AloneInv'
  BY <1>19 DEF Select, Goto, setup
<1>20. CASE UNCHANGED vars
  BY <1>20 DEF vars, setup
<1> QED
  BY <1>1, <1>2, <1>3, <1>4, <1>5, <1>6, <1>7, <1>8, <1>9, <1>10, <1>11,
     <1>12, <1>13, <1>14, <1>15, <1>16, <1>17, <1>18, <1>19, <1>20
  DEF Next, Main, Loop

-----------------------------------------------------------------------------
LEMMA IInvAlways == Spec => []IInv
<1>1. IInv /\ [Next]_vars => IInv'
  BY TypeStep, InitStep, LoopStep, AloneStep DEF IInv
<1> QED
  BY <1>1, IInvInit, PTL DEF Spec

(* The registries, the path, the backlog and the goroutines keep their     *)
(* types in every order of starts, signals, kills and connections.         *)
THEOREM TypeCorrect == Spec => []TypeOK
<1>1. IInv => TypeOK
  BY DEF IInv
<1> QED
  BY <1>1, IInvAlways, PTL

(* A runner that shares its path with no other runner at the same time     *)
(* comes up whatever was left at the path: neither net.Listen nor os.Chmod *)
(* makes Run end in Fatalf.                                                *)
THEOREM ComesUp == Spec => []NeverFatal
<1>1. IInv => NeverFatal
  BY DEF IInv, AloneInv, NeverFatal
<1> QED
  BY <1>1, IInvAlways, PTL

(* The accept loop is never handed the error of a closed listener before   *)
(* done is closed: close(done) comes before the deferred l.Close.          *)
THEOREM QuietExit == Spec => []NoAcceptError
<1>1. IInv => NoAcceptError
  BY DEF IInv, LoopInv, NoAcceptError
<1> QED
  BY <1>1, IInvAlways, PTL

(* Nothing is registered any more once the accept goroutine exists, so     *)
(* that findPlugin may read the registry without its mutex.                *)
THEOREM RegistryStays == Spec => RegistryFrozen
<1>1. ASSUME IInv, [Next]_vars
      PROVE  [\A p \in Procs : loop[p] # "none" => registry'[p] = registry[p]]_vars
  <2> SUFFICES ASSUME NEW q \in Procs, loop[q] # "none"
               PROVE  registry'[q] = registry[q]
    OBVIOUS
  <2> USE DEF IInv, TypeOK
  <2>1. main[q] # "init"
    BY <1>1 DEF LoopInv
  <2>2. CASE registry' = registry
    BY <2>2
  <2>3. ASSUME NEW p \in Procs, RegisterPlugin(p)
        PROVE  registry'[q] = registry[q]
    BY <1>1, <2>1, <2>3 DEF RegisterPlugin
  <2> QED
    BY <1>1, <2>2, <2>3
    DEF Next, Main, Loop, Start, Execute, Configure, Clean, Listen, Chmod, Fatal,
        Notify, Signal, Kill, CloseDone, CloseListener, Remove, Profile, Connect,
        Accept, AcceptFails, AcceptClosed, Select, End, setup, vars
<1> QED
  BY <1>1, IInvAlways, PTL DEF Spec, RegistryFrozen
=============================================================================
