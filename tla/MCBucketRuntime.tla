-------------------------- MODULE MCBucketRuntime --------------------------
(* Small instances of BucketRuntime for TLC. *)
EXTENDS BucketRuntime

CONSTANTS b1, b2, b3

NoLists == [x \in {} |-> {}]

\* Two buckets in a row; forwards return tensors, or nothing that needs a grad.
Registration2 == <<b1, b2>>
Tensors2 == [x \in {b1, b2} |-> {"none", "grad"}]

Grads2 == [x \in {b1, b2} |-> {"grad"}]

\* Three buckets, b1's modules around the others'.  b1 prefetches both others
\* explicitly in forward; b2's outputs may hide their tensors, b3's may
\* view its storage.
Registration3 == <<b1, b2, b3>>
ModuleOrder3 == <<b1, b3, b2>>
Lists3 == [x \in {b1} |-> {b2, b3}]
Outputs3 == [x \in {b1, b2, b3} |-> CASE x = b1 -> {"grad"}
                                      [] x = b2 -> {"grad", "opaque"}
                                      [] x = b3 -> {"grad", "view"}]
=============================================================================
