-------------------------- MODULE MCModelScheduler --------------------------
(* A pool of two models, one with one slot and one with two, and a name    *)
(* the pool does not have.                                                 *)
EXTENDS ModelScheduler, TLC

CONSTANTS heavy, light, missing

MCModels == {heavy, light, missing}
MCPool == {heavy, light}
MCMaxConcurrent == heavy :> 1 @@ light :> 2
=============================================================================
