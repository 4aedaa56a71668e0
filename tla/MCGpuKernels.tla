---------------------------- MODULE MCGpuKernels ----------------------------
(* Functions of three statements over two sets, two vectors over V, one    *)
(* vector over E and a scalar.                                             *)
EXTENDS GpuKernels

Atom(dst, at, op, k, src, from) ==
  [dst |-> dst, at |-> at, op |-> op, k |-> k, src |-> src, from |-> from, once |-> FALSE]

For(set, body) == [kind |-> "for", set |-> set, pre |-> body, inner |-> <<>>, post |-> <<>>]

For2(set, pre, inset, body) ==
  [kind |-> "for", set |-> set, pre |-> pre, inner |-> <<[set |-> inset, body |-> body]>>, post |-> <<>>]

HostStatement(a) == [kind |-> "host", atom |-> a]

Menu == {
  For("V", <<Atom("a", "x", "set", 0, "none", "one")>>),
  For("E", <<Atom("a", "next", "add", 1, "c", "x")>>),
  For("V", <<Atom("b", "x", "set", 1, "a", "next")>>),
  For("V", <<Atom("s", "one", "self", 1, "b", "x")>>),
  For("V", <<Atom("a", "x", "self", 1, "none", "one")>>),
  For("E", <<Atom("c", "x", "set", 2, "s", "one")>>),
  For2("V", <<Atom("b", "x", "set", 1, "none", "one")>>, "V", <<Atom("a", "x", "add", 1, "none", "one")>>),
  For2("V", <<>>, "V", <<Atom("s", "one", "add", 1, "none", "one")>>),
  HostStatement(Atom("s", "one", "set", 3, "none", "one")),
  HostStatement(Atom("a", "one", "set", 1, "s", "one")),
  [kind |-> "memset", var |-> "b"]}

MCPrograms == {<<p, q, r>> : p \in Menu, q \in Menu, r \in Menu}
MCVarLen == [a |-> 2, b |-> 2, c |-> 3, s |-> 1]
MCSetLen == [V |-> 2, E |-> 3]
=============================================================================
