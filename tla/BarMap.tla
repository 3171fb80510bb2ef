------------------------------- MODULE BarMap -------------------------------
(***************************************************************************)
(* BarTranslate: how a (bar, offset, len) access of the host becomes the   *)
(* physical address libttsim decodes.  Geometry stands for a row of the    *)
(* chip table: the base and the size of each of the three BARs.            *)
(***************************************************************************)
EXTENDS Naturals

CONSTANTS
  Geometry,      \* chip: [{0, 2, 4} -> [base : Nat, size : Nat]]
  Bar4Override,  \* bar4_size_override: 0 when --bar4-size is not given
  LongSize       \* 2^64: what a uint64_t cannot hold any more

BarIdx == {0, 2, 4}

ASSUME GeometryAssumption ==
  /\ Geometry \in [BarIdx -> [base : Nat, size : Nat]]
  /\ Bar4Override \in Nat
  /\ LongSize \in Nat \ {0}

BarSize(bar) ==
  IF bar = 4 /\ Bar4Override # 0 THEN Bar4Override ELSE Geometry[bar].size

\* Fault: the end of the access is computed and compared.
MappedByEnd(bar, offset, len) ==
  /\ bar \in BarIdx
  /\ (offset + len) % LongSize <= BarSize(bar)

\* BarTranslate returns true.  The subtraction is guarded by the comparison
\* before it, so it never wraps.
Mapped(bar, offset, len) ==
  /\ bar \in BarIdx
  /\ offset <= BarSize(bar)
  /\ len <= BarSize(bar) - offset

\* The address BarTranslate stores through paddr when it returns true.  The
\* sum wraps when BAR4 is declared to end beyond the address space.
Paddr(bar, offset) == (Geometry[bar].base + offset) % LongSize
=============================================================================
