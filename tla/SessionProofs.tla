---------------------------- MODULE SessionProofs ----------------------------
(***************************************************************************)
(* The safety properties of Session for every set of command lines,        *)
(* namespaces and errors, and any number of ticks.                         *)
(***************************************************************************)
EXTENDS Session, TLAPS

USE SessionAssumption

(* Statements of Run before the command starts, and those of watch. *)
Resolving == {"resolve", "resolving", "resolved"}

(* The handler is in from "resolve" on; the command starts exactly when the *)
(* scope is settled, and only a watch enters the loop.                      *)
PhaseInv ==
  /\ pc \in Resolving \cup Running => handled
  /\ began => pc \in Running \cup {"exit"}
  /\ pc \in Running => began
  /\ pc \in Watching => inv.watch
  /\ pc \in {"running", "ran"} => ~inv.watch
  /\ ctxDone => handled
  /\ handled => pc \in Resolving \cup Running \cup {"exit"}

(* What a request past the flag checks knows of the flag. *)
ScopeInv ==
  /\ pc \in Resolving => ~inv.all /\ flagNS.kind # "none"
  /\ ScopeHonoursFlag

(* Only an interrupt makes a cancellation, and watch never draws one. *)
DrawInv ==
  /\ err = "canceled" => ctxDone
  /\ pc = "draw" => err # "canceled"
  /\ "canceled" \notin drawn
  /\ late <= 1
  /\ late = 1 => ctxDone /\ pc \in {"wait", "top", "exit"}

(* Between two frames a tick was taken: until the frame is drawn, there are *)
(* no more frames than ticks taken.                                         *)
PaceInv ==
  /\ FramesPaced
  /\ pc \notin {"wait", "exit"} => frames + (IF pending THEN 1 ELSE 0) <= ticks

IInv ==
  /\ TypeOK
  /\ PhaseInv
  /\ ScopeInv
  /\ DrawInv
  /\ PaceInv
  /\ ExitCodeTrue
  /\ WatchOutlivesErrors

(* Every action of Run keeps the types. *)
LEMMA TypeStep == IInv /\ [Next]_vars => TypeOK'
<1> SUFFICES ASSUME IInv, [Next]_vars PROVE TypeOK'
  OBVIOUS
<1> USE DEF IInv, TypeOK, netVars, watchVars, Running, Watching, Invocation, NSFlag, ScopeOf, FramesPaced, PaceInv
<1>1. CASE Refuse
  BY <1>1 DEF Refuse, Exit
<1>2. CASE Accept
  BY <1>2 DEF Accept
<1>3. CASE Connect
  BY <1>3 DEF Connect, Exit
<1>4. CASE InstallHandler
  <2>1. flagNS.match \subseteq NS
    BY DEF NSFlag
  <2>2. ScopeOf({}) \subseteq NS \cup {RawGlob}
    BY <2>1 DEF ScopeOf
  <2>3. scope' \subseteq NS \cup {RawGlob}
    BY <1>4, <2>2 DEF InstallHandler, Start
  <2>4. pc' \in {"start", "resolve"} /\ began' \in BOOLEAN
    BY <1>4 DEF InstallHandler, Start
  <2> QED
    BY <1>4, <2>3, <2>4 DEF InstallHandler
<1>5. CASE BadPattern
  BY <1>5 DEF BadPattern, Exit
<1>6. CASE SendResolve
  BY <1>6 DEF SendResolve, Send
<1>7. CASE ResolveFailed
  BY <1>7 DEF ResolveFailed, Exit
<1>8. CASE ResolveEmpty
  BY <1>8 DEF ResolveEmpty, Exit
<1>9. CASE ResolvedTo
  BY <1>9 DEF ResolvedTo, Start
<1>10. CASE SendRun
  BY <1>10 DEF SendRun, Send
<1>11. CASE Finish
  BY <1>11, ZenonT(60) DEF Finish, Exit
<1>12. CASE StartWatch
  BY <1>12 DEF StartWatch
<1>13. CASE Top
  BY <1>13 DEF Top, Exit
<1>14. CASE SendRender
  BY <1>14 DEF SendRender, Send
<1>15. CASE Rendered
  BY <1>15 DEF Rendered, Exit
<1>16. CASE Draw
  BY <1>16 DEF Draw
<1>17. CASE WaitDone
  BY <1>17 DEF WaitDone, Exit
<1>18. CASE WaitTick
  BY <1>18, ZenonT(60) DEF WaitTick
<1>19. CASE Tick
  BY <1>19 DEF Tick
<1>20. CASE Signal
  <2>1. CASE handled
    BY <1>20, <2>1 DEF Signal, Exit
  <2>2. CASE ~handled
    BY <1>20, <2>2 DEF Signal, Exit
  <2> QED
    BY <2>1, <2>2
<1>21. CASE NamespaceChange
  BY <1>21 DEF NamespaceChange
<1>22. CASE \E read \in Reads : Answered(read)
  BY <1>22 DEF Answered, Ended, Reads, After
<1>23. CASE \E read \in Reads : TimedOut(read)
  BY <1>23 DEF TimedOut, Ended, Reads, After
<1>24. CASE \E read \in Reads : Aborted(read)
  BY <1>24 DEF Aborted, Ended, Reads, After
<1>25. CASE UNCHANGED vars
  BY <1>25 DEF vars
<1> QED
  BY <1>1, <1>2, <1>3, <1>4, <1>5, <1>6, <1>7, <1>8, <1>9, <1>10, <1>11, <1>12, <1>13, <1>14, <1>15, <1>16, <1>17, <1>18, <1>19, <1>20, <1>21, <1>22, <1>23, <1>24, <1>25 DEF Next, Own, Exited

(* handled and began follow pc through Run. *)
LEMMA PhaseStep == IInv /\ [Next]_vars => PhaseInv'
<1> SUFFICES ASSUME IInv, [Next]_vars PROVE PhaseInv'
  OBVIOUS
<1> USE DEF IInv, TypeOK, netVars, watchVars, Running, Watching, PhaseInv, Resolving
<1>1. CASE Refuse
  BY <1>1 DEF Refuse, Exit
<1>2. CASE Accept
  BY <1>2 DEF Accept
<1>3. CASE Connect
  BY <1>3 DEF Connect, Exit
<1>4. CASE InstallHandler
  BY <1>4 DEF InstallHandler, Start
<1>5. CASE BadPattern
  BY <1>5 DEF BadPattern, Exit
<1>6. CASE SendResolve
  BY <1>6 DEF SendResolve, Send
<1>7. CASE ResolveFailed
  BY <1>7 DEF ResolveFailed, Exit
<1>8. CASE ResolveEmpty
  BY <1>8 DEF ResolveEmpty, Exit
<1>9. CASE ResolvedTo
  BY <1>9 DEF ResolvedTo, Start
<1>10. CASE SendRun
  BY <1>10 DEF SendRun, Send
<1>11. CASE Finish
  BY <1>11 DEF Finish, Exit
<1>12. CASE StartWatch
  BY <1>12 DEF StartWatch
<1>13. CASE Top
  BY <1>13 DEF Top, Exit
<1>14. CASE SendRender
  BY <1>14 DEF SendRender, Send
<1>15. CASE Rendered
  BY <1>15 DEF Rendered, Exit
<1>16. CASE Draw
  BY <1>16 DEF Draw
<1>17. CASE WaitDone
  BY <1>17 DEF WaitDone, Exit
<1>18. CASE WaitTick
  BY <1>18 DEF WaitTick
<1>19. CASE Tick
  BY <1>19 DEF Tick
<1>20. CASE Signal
  BY <1>20 DEF Signal, Exit
<1>21. CASE NamespaceChange
  BY <1>21 DEF NamespaceChange
<1>22. CASE \E read \in Reads : Answered(read)
  BY <1>22 DEF Answered, Ended, Reads, After
<1>23. CASE \E read \in Reads : TimedOut(read)
  BY <1>23 DEF TimedOut, Ended, Reads, After
<1>24. CASE \E read \in Reads : Aborted(read)
  BY <1>24 DEF Aborted, Ended, Reads, After
<1>25. CASE UNCHANGED vars
  BY <1>25 DEF vars
<1> QED
  BY <1>1, <1>2, <1>3, <1>4, <1>5, <1>6, <1>7, <1>8, <1>9, <1>10, <1>11, <1>12, <1>13, <1>14, <1>15, <1>16, <1>17, <1>18, <1>19, <1>20, <1>21, <1>22, <1>23, <1>24, <1>25 DEF Next, Own, Exited

(* The scope is settled once, in InstallHandler or ResolvedTo, and only a
   command line with -n and no -A goes through the latter. *)
LEMMA ScopeStep == IInv /\ [Next]_vars => ScopeInv'
<1> SUFFICES ASSUME IInv, [Next]_vars PROVE ScopeInv'
  OBVIOUS
<1> USE DEF IInv, TypeOK, netVars, watchVars, Running, Watching, ScopeInv, ScopeHonoursFlag, ScopeOf, Resolving, PhaseInv
<1>1. CASE Refuse
  BY <1>1 DEF Refuse, Exit
<1>2. CASE Accept
  BY <1>2 DEF Accept
<1>3. CASE Connect
  BY <1>3 DEF Connect, Exit
<1>4. CASE InstallHandler
  BY <1>4 DEF InstallHandler, Start
<1>5. CASE BadPattern
  BY <1>5 DEF BadPattern, Exit
<1>6. CASE SendResolve
  BY <1>6 DEF SendResolve, Send
<1>7. CASE ResolveFailed
  BY <1>7 DEF ResolveFailed, Exit
<1>8. CASE ResolveEmpty
  BY <1>8 DEF ResolveEmpty, Exit
<1>9. CASE ResolvedTo
  BY <1>9 DEF ResolvedTo, Start
<1>10. CASE SendRun
  BY <1>10 DEF SendRun, Send
<1>11. CASE Finish
  BY <1>11 DEF Finish, Exit
<1>12. CASE StartWatch
  BY <1>12 DEF StartWatch
<1>13. CASE Top
  BY <1>13 DEF Top, Exit
<1>14. CASE SendRender
  BY <1>14 DEF SendRender, Send
<1>15. CASE Rendered
  BY <1>15 DEF Rendered, Exit
<1>16. CASE Draw
  BY <1>16 DEF Draw
<1>17. CASE WaitDone
  BY <1>17 DEF WaitDone, Exit
<1>18. CASE WaitTick
  BY <1>18 DEF WaitTick
<1>19. CASE Tick
  BY <1>19 DEF Tick
<1>20. CASE Signal
  BY <1>20 DEF Signal, Exit
<1>21. CASE NamespaceChange
  BY <1>21 DEF NamespaceChange
<1>22. CASE \E read \in Reads : Answered(read)
  BY <1>22 DEF Answered, Ended, Reads, After
<1>23. CASE \E read \in Reads : TimedOut(read)
  BY <1>23 DEF TimedOut, Ended, Reads, After
<1>24. CASE \E read \in Reads : Aborted(read)
  BY <1>24 DEF Aborted, Ended, Reads, After
<1>25. CASE UNCHANGED vars
  BY <1>25 DEF vars
<1> QED
  BY <1>1, <1>2, <1>3, <1>4, <1>5, <1>6, <1>7, <1>8, <1>9, <1>10, <1>11, <1>12, <1>13, <1>14, <1>15, <1>16, <1>17, <1>18, <1>19, <1>20, <1>21, <1>22, <1>23, <1>24, <1>25 DEF Next, Own, Exited

(* A frame is drawn after an interrupt only if its render had no error. *)
LEMMA DrawStep == IInv /\ [Next]_vars => DrawInv'
<1> SUFFICES ASSUME IInv, [Next]_vars PROVE DrawInv'
  OBVIOUS
<1> USE DEF IInv, TypeOK, netVars, watchVars, Running, Watching, DrawInv
<1>1. CASE Refuse
  BY <1>1 DEF Refuse, Exit
<1>2. CASE Accept
  BY <1>2 DEF Accept
<1>3. CASE Connect
  BY <1>3 DEF Connect, Exit
<1>4. CASE InstallHandler
  BY <1>4 DEF InstallHandler, Start
<1>5. CASE BadPattern
  BY <1>5 DEF BadPattern, Exit
<1>6. CASE SendResolve
  BY <1>6 DEF SendResolve, Send
<1>7. CASE ResolveFailed
  BY <1>7 DEF ResolveFailed, Exit
<1>8. CASE ResolveEmpty
  BY <1>8 DEF ResolveEmpty, Exit
<1>9. CASE ResolvedTo
  BY <1>9 DEF ResolvedTo, Start
<1>10. CASE SendRun
  BY <1>10 DEF SendRun, Send
<1>11. CASE Finish
  BY <1>11 DEF Finish, Exit
<1>12. CASE StartWatch
  BY <1>12 DEF StartWatch
<1>13. CASE Top
  BY <1>13 DEF Top, Exit
<1>14. CASE SendRender
  BY <1>14 DEF SendRender, Send
<1>15. CASE Rendered
  BY <1>15 DEF Rendered, Exit
<1>16. CASE Draw
  BY <1>16 DEF Draw
<1>17. CASE WaitDone
  BY <1>17 DEF WaitDone, Exit
<1>18. CASE WaitTick
  BY <1>18 DEF WaitTick
<1>19. CASE Tick
  BY <1>19 DEF Tick
<1>20. CASE Signal
  BY <1>20 DEF Signal, Exit
<1>21. CASE NamespaceChange
  BY <1>21 DEF NamespaceChange
<1>22. CASE \E read \in Reads : Answered(read)
  BY <1>22 DEF Answered, Ended, Reads, After
<1>23. CASE \E read \in Reads : TimedOut(read)
  BY <1>23 DEF TimedOut, Ended, Reads, After
<1>24. CASE \E read \in Reads : Aborted(read)
  BY <1>24 DEF Aborted, Ended, Reads, After
<1>25. CASE UNCHANGED vars
  BY <1>25 DEF vars
<1> QED
  BY <1>1, <1>2, <1>3, <1>4, <1>5, <1>6, <1>7, <1>8, <1>9, <1>10, <1>11, <1>12, <1>13, <1>14, <1>15, <1>16, <1>17, <1>18, <1>19, <1>20, <1>21, <1>22, <1>23, <1>24, <1>25 DEF Next, Own, Exited

(* Draw uses up the tick that WaitTick took. *)
LEMMA PaceStep == IInv /\ [Next]_vars => PaceInv'
<1> SUFFICES ASSUME IInv, [Next]_vars PROVE PaceInv'
  OBVIOUS
<1> USE DEF IInv, TypeOK, netVars, watchVars, Running, Watching, PaceInv, FramesPaced
<1>1. CASE Refuse
  BY <1>1 DEF Refuse, Exit
<1>2. CASE Accept
  BY <1>2 DEF Accept
<1>3. CASE Connect
  BY <1>3 DEF Connect, Exit
<1>4. CASE InstallHandler
  BY <1>4 DEF InstallHandler, Start
<1>5. CASE BadPattern
  BY <1>5 DEF BadPattern, Exit
<1>6. CASE SendResolve
  BY <1>6 DEF SendResolve, Send
<1>7. CASE ResolveFailed
  BY <1>7 DEF ResolveFailed, Exit
<1>8. CASE ResolveEmpty
  BY <1>8 DEF ResolveEmpty, Exit
<1>9. CASE ResolvedTo
  BY <1>9 DEF ResolvedTo, Start
<1>10. CASE SendRun
  BY <1>10 DEF SendRun, Send
<1>11. CASE Finish
  BY <1>11 DEF Finish, Exit
<1>12. CASE StartWatch
  BY <1>12 DEF StartWatch
<1>13. CASE Top
  BY <1>13 DEF Top, Exit
<1>14. CASE SendRender
  BY <1>14 DEF SendRender, Send
<1>15. CASE Rendered
  BY <1>15 DEF Rendered, Exit
<1>16. CASE Draw
  BY <1>16 DEF Draw
<1>17. CASE WaitDone
  BY <1>17 DEF WaitDone, Exit
<1>18. CASE WaitTick
  BY <1>18 DEF WaitTick
<1>19. CASE Tick
  BY <1>19 DEF Tick
<1>20. CASE Signal
  BY <1>20 DEF Signal, Exit
<1>21. CASE NamespaceChange
  BY <1>21 DEF NamespaceChange
<1>22. CASE \E read \in Reads : Answered(read)
  BY <1>22 DEF Answered, Ended, Reads, After
<1>23. CASE \E read \in Reads : TimedOut(read)
  BY <1>23 DEF TimedOut, Ended, Reads, After
<1>24. CASE \E read \in Reads : Aborted(read)
  BY <1>24 DEF Aborted, Ended, Reads, After
<1>25. CASE UNCHANGED vars
  BY <1>25 DEF vars
<1> QED
  BY <1>1, <1>2, <1>3, <1>4, <1>5, <1>6, <1>7, <1>8, <1>9, <1>10, <1>11, <1>12, <1>13, <1>14, <1>15, <1>16, <1>17, <1>18, <1>19, <1>20, <1>21, <1>22, <1>23, <1>24, <1>25 DEF Next, Own, Exited

(* A single run exits in Finish alone. *)
LEMMA ExitStep == IInv /\ [Next]_vars => ExitCodeTrue'
<1> SUFFICES ASSUME IInv, [Next]_vars PROVE ExitCodeTrue'
  OBVIOUS
<1> USE DEF IInv, TypeOK, netVars, watchVars, Running, Watching, ExitCodeTrue, PhaseInv, DrawInv, Resolving
<1>1. CASE Refuse
  BY <1>1 DEF Refuse, Exit
<1>2. CASE Accept
  BY <1>2 DEF Accept
<1>3. CASE Connect
  BY <1>3 DEF Connect, Exit
<1>4. CASE InstallHandler
  BY <1>4 DEF InstallHandler, Start
<1>5. CASE BadPattern
  BY <1>5 DEF BadPattern, Exit
<1>6. CASE SendResolve
  BY <1>6 DEF SendResolve, Send
<1>7. CASE ResolveFailed
  BY <1>7 DEF ResolveFailed, Exit
<1>8. CASE ResolveEmpty
  BY <1>8 DEF ResolveEmpty, Exit
<1>9. CASE ResolvedTo
  BY <1>9 DEF ResolvedTo, Start
<1>10. CASE SendRun
  BY <1>10 DEF SendRun, Send
<1>11. CASE Finish
  <2>1. CASE err = None /\ Exit(0, None)
    BY <1>11, <2>1 DEF Finish, Exit
  <2>2. CASE err # None /\ (ctxDone \/ err = "canceled") /\ Exit(130, None)
    BY <1>11, <2>2 DEF Finish, Exit
  <2>3. CASE err # None /\ ~ctxDone /\ \E m : Exit(1, m)
    <3>1. code' = 1 /\ err' = err /\ err # None /\ err # "canceled"
      BY <1>11, <2>3 DEF Finish, Exit
    <3> QED
      BY <3>1
  <2> QED
    BY <1>11, <2>1, <2>2, <2>3, ZenonT(60) DEF Finish
<1>12. CASE StartWatch
  BY <1>12 DEF StartWatch
<1>13. CASE Top
  BY <1>13 DEF Top, Exit
<1>14. CASE SendRender
  BY <1>14 DEF SendRender, Send
<1>15. CASE Rendered
  BY <1>15 DEF Rendered, Exit
<1>16. CASE Draw
  BY <1>16 DEF Draw
<1>17. CASE WaitDone
  BY <1>17 DEF WaitDone, Exit
<1>18. CASE WaitTick
  BY <1>18 DEF WaitTick
<1>19. CASE Tick
  BY <1>19 DEF Tick
<1>20. CASE Signal
  BY <1>20 DEF Signal, Exit
<1>21. CASE NamespaceChange
  BY <1>21 DEF NamespaceChange
<1>22. CASE \E read \in Reads : Answered(read)
  BY <1>22 DEF Answered, Ended, Reads, After
<1>23. CASE \E read \in Reads : TimedOut(read)
  BY <1>23 DEF TimedOut, Ended, Reads, After
<1>24. CASE \E read \in Reads : Aborted(read)
  BY <1>24 DEF Aborted, Ended, Reads, After
<1>25. CASE UNCHANGED vars
  BY <1>25 DEF vars
<1> QED
  BY <1>1, <1>2, <1>3, <1>4, <1>5, <1>6, <1>7, <1>8, <1>9, <1>10, <1>11, <1>12, <1>13, <1>14, <1>15, <1>16, <1>17, <1>18, <1>19, <1>20, <1>21, <1>22, <1>23, <1>24, <1>25 DEF Next, Own, Exited

(* A watch exits in Top, Rendered and WaitDone alone. *)
LEMMA WatchStep == IInv /\ [Next]_vars => WatchOutlivesErrors'
<1> SUFFICES ASSUME IInv, [Next]_vars PROVE WatchOutlivesErrors'
  OBVIOUS
<1> USE DEF IInv, TypeOK, netVars, watchVars, Running, Watching, WatchOutlivesErrors, PhaseInv, Resolving
<1>1. CASE Refuse
  BY <1>1 DEF Refuse, Exit
<1>2. CASE Accept
  BY <1>2 DEF Accept
<1>3. CASE Connect
  BY <1>3 DEF Connect, Exit
<1>4. CASE InstallHandler
  BY <1>4 DEF InstallHandler, Start
<1>5. CASE BadPattern
  BY <1>5 DEF BadPattern, Exit
<1>6. CASE SendResolve
  BY <1>6 DEF SendResolve, Send
<1>7. CASE ResolveFailed
  BY <1>7 DEF ResolveFailed, Exit
<1>8. CASE ResolveEmpty
  BY <1>8 DEF ResolveEmpty, Exit
<1>9. CASE ResolvedTo
  BY <1>9 DEF ResolvedTo, Start
<1>10. CASE SendRun
  BY <1>10 DEF SendRun, Send
<1>11. CASE Finish
  BY <1>11 DEF Finish, Exit
<1>12. CASE StartWatch
  BY <1>12 DEF StartWatch
<1>13. CASE Top
  BY <1>13 DEF Top, Exit
<1>14. CASE SendRender
  BY <1>14 DEF SendRender, Send
<1>15. CASE Rendered
  BY <1>15 DEF Rendered, Exit
<1>16. CASE Draw
  BY <1>16 DEF Draw
<1>17. CASE WaitDone
  BY <1>17 DEF WaitDone, Exit
<1>18. CASE WaitTick
  BY <1>18 DEF WaitTick
<1>19. CASE Tick
  BY <1>19 DEF Tick
<1>20. CASE Signal
  BY <1>20 DEF Signal, Exit
<1>21. CASE NamespaceChange
  BY <1>21 DEF NamespaceChange
<1>22. CASE \E read \in Reads : Answered(read)
  BY <1>22 DEF Answered, Ended, Reads, After
<1>23. CASE \E read \in Reads : TimedOut(read)
  BY <1>23 DEF TimedOut, Ended, Reads, After
<1>24. CASE \E read \in Reads : Aborted(read)
  BY <1>24 DEF Aborted, Ended, Reads, After
<1>25. CASE UNCHANGED vars
  BY <1>25 DEF vars
<1> QED
  BY <1>1, <1>2, <1>3, <1>4, <1>5, <1>6, <1>7, <1>8, <1>9, <1>10, <1>11, <1>12, <1>13, <1>14, <1>15, <1>16, <1>17, <1>18, <1>19, <1>20, <1>21, <1>22, <1>23, <1>24, <1>25 DEF Next, Own, Exited

LEMMA InitInv == Init => IInv
<1> SUFFICES ASSUME Init PROVE IInv
  OBVIOUS
<1> USE DEF Init, Running, Watching, Resolving
<1>1. TypeOK
  <2>1. inv.ns \in NSFlag
    BY DEF Invocation
  <2>2. inv \in Invocations /\ cluster \subseteq NS /\ flagNS \in NSFlag
    BY <2>1
  <2>3. {handled, ctxDone, live, pending, began} \subseteq BOOLEAN
    OBVIOUS
  <2>4. ticks \in 0..MaxTicks /\ frames \in 0..MaxTicks + 1 /\ late \in Nat
    OBVIOUS
  <2>5. pc = "dispatch" /\ scope = {} /\ found = {} /\ err = None /\ code = None
    OBVIOUS
  <2> HIDE DEF Init
  <2> QED
    BY <2>2, <2>3, <2>4, <2>5 DEF TypeOK
<1>2. PhaseInv /\ ScopeInv /\ DrawInv
  BY DEF PhaseInv, ScopeInv, ScopeHonoursFlag, DrawInv
<1>3. PaceInv
  BY DEF PaceInv, FramesPaced
<1>4. ExitCodeTrue /\ WatchOutlivesErrors
  BY DEF ExitCodeTrue, WatchOutlivesErrors
<1> QED
  BY <1>1, <1>2, <1>3, <1>4 DEF IInv

(* The inductive invariant holds in every reachable state. *)
THEOREM Invariance == Spec => []IInv
<1>1. IInv /\ [Next]_vars => IInv'
  BY TypeStep, PhaseStep, ScopeStep, DrawStep, PaceStep, ExitStep, WatchStep DEF IInv
<1> QED
  BY InitInv, <1>1, PTL DEF Spec

(* Types, for any command lines (Run, ResolveScope, watch). *)
THEOREM TypeCorrect == Spec => []TypeOK
<1>1. IInv => TypeOK
  BY DEF IInv
<1> QED
  BY Invariance, <1>1, PTL

(* ResolveScope never widens a -n, and what a command lists existed. *)
THEOREM ScopeExact == Spec => []ScopeHonoursFlag
<1>1. IInv => ScopeHonoursFlag
  BY DEF IInv, ScopeInv
<1> QED
  BY Invariance, <1>1, PTL

(* The exit code of a single run tells how it ended (Run's last switch). *)
THEOREM ExitCodes == Spec => []ExitCodeTrue
<1>1. IInv => ExitCodeTrue
  BY DEF IInv
<1> QED
  BY Invariance, <1>1, PTL

(* No error ends a watch, only the user does. *)
THEOREM WatchSurvives == Spec => []WatchOutlivesErrors
<1>1. IInv => WatchOutlivesErrors
  BY DEF IInv
<1> QED
  BY Invariance, <1>1, PTL

(* watch draws no cancellation, and at most one frame after it. *)
THEOREM InterruptQuiet == Spec => []QuietInterrupt
<1>1. IInv => QuietInterrupt
  BY DEF IInv, DrawInv, QuietInterrupt
<1> QED
  BY Invariance, <1>1, PTL

(* However long the watch, one frame per tick and the first. *)
THEOREM PacedByTicker == Spec => []FramesPaced
<1>1. IInv => FramesPaced
  BY DEF IInv, PaceInv
<1> QED
  BY Invariance, <1>1, PTL
==============================================================================
