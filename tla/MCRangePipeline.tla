-------------------------- MODULE MCRangePipeline ---------------------------
(* RangePipeline on small instances. *)
EXTENDS RangePipelineInv, TLC

(* The inductive invariant holds, and each buffer has one owner.             *)
OwnedOnce == IInv /\ OneOwner

(* Every Range call returns, and so does the destructor.                     *)
PipelineEnds == RangeReturns /\ DestroyReturns
=============================================================================
