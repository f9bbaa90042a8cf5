--------------------------- MODULE SealedOriginal ---------------------------
(***************************************************************************)
(* What the archive promises of a piece that binds its author: what it     *)
(* says is sealed when it is issued, one rendering of it is chosen, and    *)
(* the files archived are those, once and for all.                         *)
(***************************************************************************)
EXTENDS Naturals

CONSTANTS
    Pieces, Kinds, Files(_),
    Versions, Renderings,       \* sets of numbers, without 0
    Drawn(_, _, _), Nothing

VARIABLES
    sealed,       \* version of the world the piece was issued in, 0 before
    chosen,       \* which rendering of it, 0 before
    archived      \* its files, Nothing before

PromiseInit ==
    /\ sealed = [p \in Pieces |-> 0]
    /\ chosen = [p \in Pieces |-> 0]
    /\ archived = [p \in Pieces |-> Nothing]

Seal(p) ==
    /\ sealed[p] = 0
    /\ \E version \in Versions : sealed' = [sealed EXCEPT ![p] = version]
    /\ UNCHANGED <<chosen, archived>>

Choose(p) ==
    /\ sealed[p] # 0 /\ chosen[p] = 0
    /\ \E rendering \in Renderings : chosen' = [chosen EXCEPT ![p] = rendering]
    /\ UNCHANGED <<sealed, archived>>

Archive(p) ==
    /\ chosen[p] # 0 /\ archived[p] = Nothing
    /\ archived' = [archived EXCEPT ![p] =
         [k \in Kinds |-> IF k \in Files(p) THEN Drawn(sealed[p], k, chosen[p])
                                            ELSE Nothing[k]]]
    /\ UNCHANGED <<sealed, chosen>>

PromiseNext == \E p \in Pieces : Seal(p) \/ Choose(p) \/ Archive(p)

Promise == PromiseInit /\ [][PromiseNext]_<<sealed, chosen, archived>>
=============================================================================
