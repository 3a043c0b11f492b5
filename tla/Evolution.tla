------------------------------ MODULE Evolution ------------------------------
(***************************************************************************)
(* What the population updates promise of the actions that agents hold:    *)
(* every change is one the update rule allows under the payoffs that the   *)
(* profile of that moment earns in full play.  A synchronous update moves  *)
(* everybody at once, from the same profile; an asynchronous one a single  *)
(* agent; a Moran step replaces a single agent.                            *)
(***************************************************************************)
CONSTANTS Agent, Action,
          MayCopy(_, _, _, _),    \* assembly, profile: agent, source
          MayBear(_, _, _)        \* assembly, profile: parent
VARIABLES asm, held

Decides   == /\ asm.update.mode = "none"
             /\ \E a \in asm.rules, x \in Action : held' = [held EXCEPT ![a] = x]
AllCopy   == /\ asm.update.mode = "sync" /\ asm.update.rule # "moran"
             /\ held' \in [Agent -> Action]
             /\ \A a \in Agent : \E b \in Agent : MayCopy(asm, held, a, b) /\ held'[a] = held[b]
OneCopies == /\ asm.update.mode = "async"
             /\ \E a, b \in Agent : MayCopy(asm, held, a, b) /\ held' = [held EXCEPT ![a] = held[b]]
Birth     == /\ asm.update.rule = "moran"
             /\ \E parent, death \in Agent, x \in Action :
                  /\ held' = [held EXCEPT ![death] = x]
                  /\ x = held[parent] \/ asm.update.mutates
                  /\ MayBear(asm, held, parent)

Init == held \in [Agent -> Action]
Next == UNCHANGED asm /\ (Decides \/ AllCopy \/ OneCopies \/ Birth)
Spec == Init /\ [][Next]_<<asm, held>>
=============================================================================
