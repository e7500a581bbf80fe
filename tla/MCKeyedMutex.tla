----------------------------- MODULE MCKeyedMutex -----------------------------
(* Three goroutines, two conversations.  As many objects as goroutines are   *)
(* enough: an object that is reachable has a goroutine counted on it.        *)
EXTENDS KeyedMutexRefinement
=============================================================================
