----------------------------- MODULE MCSubDevice -----------------------------
EXTENDS SubDevice

Device(product, name) == [product |-> product, name |-> name]
A1 == Device("A", "a1")
A2 == Device("A", "a2")
B1 == Device("B", "b1")

\* Two neighbours of one product, one of another product, one more that does not fit.
MCDeclared == <<A1, A2, B1, Device("B", "b2")>>
MCProperties == <<"p", "q">>

Change(d, p, v) == [device |-> d, property |-> p, value |-> v]
MCOrders ==
  {{Change(A1, "p", 1), Change(B1, "p", 1)},
   {Change(A1, "p", 2), Change(A1, "q", 1), Change(A2, "p", 1)}}

Entry(name, sequence, holds) ==
  [name |-> name, sequence |-> sequence, holds |-> holds, desired |-> {<<"p", 3>>}]
\* A device without sequence hides the one after it; an unknown device; a missing state.
MCJunk ==
  {{[product |-> "A", devices |-> <<Entry("a1", 0, TRUE), Entry("a2", 1, TRUE)>>],
    [product |-> "B", devices |-> <<Entry("b2", 1, TRUE), Entry("b3", 1, FALSE)>>]}}
=============================================================================
