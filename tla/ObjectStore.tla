------------------------------ MODULE ObjectStore ------------------------------
(***************************************************************************)
(* What saving through the client promises, without requests, revisions or *)
(* caches: an object maps keys to values, each save takes effect at one    *)
(* moment between its begin and its return, on the state of that moment,   *)
(* and once; it returns success only if it took effect.                    *)
(***************************************************************************)
CONSTANTS
    Savers,    \* those who save
    Objs,      \* object names
    Keys,      \* the keys of an object's data
    Value,     \* what a key can hold
    Kept       \* an edit that leaves a key alone

VARIABLES
    store,     \* Objs -> set of the object's data, or of nothing
    save       \* saver -> the save it is in, or its answer

Data  == [Keys -> Value]
Edits == [Keys -> Value \cup {Kept}]

Idle(answer) == [status |-> "idle", answer |-> answer]

\* "edit" sets some keys, "replace" all of them.
Request == [status : {"pending"}, op : {"edit", "replace", "create", "delete"},
            name : Objs, edits : Edits]

Done(r) == [r EXCEPT !.status = "done"]

Edited(data, edits) ==
    [k \in Keys |-> IF edits[k] = Kept THEN data[k] ELSE edits[k]]

Content == {{}} \cup {{data} : data \in Data}

Effect(r, content) ==
    CASE r.op = "edit"   -> {Edited(data, r.edits) : data \in content}
      [] r.op = "delete" -> {}
      [] OTHER           -> {r.edits}

Begin(s) ==
    /\ save[s].status = "idle"
    /\ save'[s] \in Request /\ save' = [save EXCEPT ![s] = save'[s]]
    /\ UNCHANGED store

TakeEffect(s) ==
    /\ save[s].status = "pending"
    /\ (save[s].op = "create") <=> (store[save[s].name] = {})
    /\ store' = [store EXCEPT ![save[s].name] = Effect(save[s], @)]
    /\ save' = [save EXCEPT ![s] = Done(@)]

\* An error says nothing about the effect; a save may be refused at once.
Return(s) ==
    /\ \E answer \in {"ok", "error"} :
          /\ answer = "ok" => save[s].status = "done"
          /\ save' = [save EXCEPT ![s] = Idle(answer)]
    /\ UNCHANGED store

\* A new file handle, without an answer yet.
Renew(s) ==
    /\ save[s].status = "idle"
    /\ save' = [save EXCEPT ![s] = Idle("none")]
    /\ UNCHANGED store

\* Others than the savers change the store as they like.
Elsewhere ==
    /\ \E n \in Objs : store'[n] \in Content /\ store' = [store EXCEPT ![n] = store'[n]]
    /\ UNCHANGED save

Init ==
    /\ store \in [Objs -> Content]
    /\ save = [s \in Savers |-> Idle("none")]

Next ==
    \/ \E s \in Savers : Begin(s) \/ TakeEffect(s) \/ Return(s) \/ Renew(s)
    \/ Elsewhere

vars == <<store, save>>

Spec == Init /\ [][Next]_vars
=============================================================================
