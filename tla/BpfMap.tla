------------------------------ MODULE BpfMap ------------------------------
(***************************************************************************)
(* BPF_MAP_TYPE_HASH as the program uses it.  A map is a total function    *)
(* from its key set whose value is Absent where the kernel has no entry.   *)
(* One operator is one bpf() map operation, which the kernel performs      *)
(* atomically; an insert into a full map fails and changes nothing, an     *)
(* update of a key that is there always succeeds.                          *)
(***************************************************************************)
EXTENDS Naturals, FiniteSets

CONSTANT Absent        \* what bpf_map_lookup_elem() finds for a missing key

\* A key outside the domain (pid 0) is never inserted by anybody.
Lookup(m, k) == IF k \in DOMAIN m THEN m[k] ELSE Absent

Has(m, k) == Lookup(m, k) # Absent

Keys(m) == {k \in DOMAIN m : Has(m, k)}

\* bpf_map_update_elem(m, k, _, BPF_ANY) returns 0.
Accepts(m, cap, k) == Has(m, k) \/ Cardinality(Keys(m)) < cap

Put(m, cap, k, v) == IF Accepts(m, cap, k) THEN [m EXCEPT ![k] = v] ELSE m

Del(m, k) == [m EXCEPT ![k] = Absent]
===========================================================================
