------------------------------- MODULE MCMemWrap -------------------------------
(***************************************************************************)
(* Programs and traffic for an end point with a few addresses.             *)
(***************************************************************************)
EXTENDS MemWrap, TLC

CONSTANTS x, base, r1, r2, q1, q2, q3

Op(k, a) == [kind |-> k, addr |-> a]
Nop == Op("NOP", x)

(* Reads of every kind and remote stores, one after the other.             *)
ReadsAndStores == {Nop, Op("LOAD", x), Op("LOAD", base), Op("LOAD", r1), Op("LOAD", r2),
                   Op("STORE", r1), Op("WHOAMI", x)}
ServeProgram == {Nop, Op("LOAD", r1), Op("STORE", x)}

ReadX == {[opcode |-> "RD", addr |-> x]}
ReadWriteX == {[opcode |-> o, addr |-> x] : o \in {"RD", "WR"}}
ReadWriteBoth == {[opcode |-> o, addr |-> a] : o \in {"RD", "WR"}, a \in {x, base}}

(* Tiles that read are alike.                                              *)
Readers == Permutations(Requestors)
================================================================================
