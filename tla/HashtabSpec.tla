----------------------------- MODULE HashtabSpec -----------------------------
(***************************************************************************)
(* What a concurrent hash table promises to its users, as the API          *)
(* documentation of SCOREP_FastHashtab.h describes it: a map from keys to  *)
(* values on which every call takes effect at one instant between its      *)
(* invocation and its return.  Only remove_if is weaker: it removes the    *)
(* matching pairs one after the other.                                     *)
(***************************************************************************)
CONSTANTS Threads,     \* the callers
          Keys,        \* the keys
          Values,      \* what value_ctor can construct
          None,        \* no value, no result
          Ops,         \* the functions that are called
          Conditions   \* the sets of keys a remove_if condition holds for

VARIABLES map,     \* map[k]: the value of key k, None if k is not in the table
          call,    \* call[t]: the call thread t is in, None outside
          status,  \* status[t]: "idle", "invoked" or "done" (has taken effect)
          result   \* result[t]: the value a finished call hands to its caller

specVars == <<map, call, status, result>>

KeyOps == {"get", "insert", "remove", "get_and_remove"}

Calls ==
    [op : Ops \cap KeyOps, keys : {{k} : k \in Keys}]
        \cup [op : Ops \cap {"remove_if"}, keys : Conditions]

SpecInit ==
    /\ map = [k \in Keys |-> None]
    /\ call = [t \in Threads |-> None]
    /\ status = [t \in Threads |-> "idle"]
    /\ result = [t \in Threads |-> None]

Invoke(t) ==
    /\ status[t] = "idle"
    /\ \E c \in Calls : call' = [call EXCEPT ![t] = c]
    /\ status' = [status EXCEPT ![t] = "invoked"]
    /\ UNCHANGED <<map, result>>

(* A call takes effect and hands r to its caller. *)
Finish(t, r) ==
    /\ status[t] = "invoked"
    /\ status' = [status EXCEPT ![t] = "done"]
    /\ result' = [result EXCEPT ![t] = r]
    /\ UNCHANGED call

Get(t) ==
    /\ call[t].op = "get"
    /\ \E k \in call[t].keys : Finish(t, map[k])
    /\ UNCHANGED map

(* The value present, or a new one, which enters the table. *)
GetAndInsert(t) ==
    /\ call[t].op = "insert"
    /\ \E k \in call[t].keys :
           \/ map[k] # None /\ Finish(t, map[k]) /\ UNCHANGED map
           \/ /\ map[k] = None
              /\ \E v \in Values \ {map[q] : q \in Keys} :
                     map' = [map EXCEPT ![k] = v] /\ Finish(t, v)

(* get_and_remove hands the value out, remove destroys it. *)
Remove(t) ==
    /\ call[t].op \in {"remove", "get_and_remove"}
    /\ \E k \in call[t].keys :
           /\ map' = [map EXCEPT ![k] = None]
           /\ Finish(t, map[k])

(* remove_if in progress: one matching pair goes. *)
RemoveMatching(t) ==
    /\ call[t].op = "remove_if"
    /\ status[t] = "invoked"
    /\ \E k \in call[t].keys : map[k] # None /\ map' = [map EXCEPT ![k] = None]
    /\ UNCHANGED <<call, status, result>>

RemoveIfDone(t) ==
    /\ call[t].op = "remove_if"
    /\ Finish(t, None)
    /\ UNCHANGED map

Return(t) ==
    /\ status[t] = "done"
    /\ status' = [status EXCEPT ![t] = "idle"]
    /\ call' = [call EXCEPT ![t] = None]
    /\ result' = [result EXCEPT ![t] = None]
    /\ UNCHANGED map

(* The serial clean-up at the end of measurement. *)
FreeChunks ==
    /\ \A t \in Threads : status[t] = "idle"
    /\ map' = [k \in Keys |-> None]
    /\ UNCHANGED <<call, status, result>>

SpecNext ==
    \/ FreeChunks
    \/ \E t \in Threads :
           \/ Invoke(t) \/ Return(t)
           \/ /\ status[t] = "invoked"
              /\ \/ Get(t) \/ GetAndInsert(t) \/ Remove(t)
                 \/ RemoveMatching(t) \/ RemoveIfDone(t)

Spec == SpecInit /\ [][SpecNext]_specVars
=============================================================================
