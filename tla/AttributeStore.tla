--------------------------- MODULE AttributeStore ---------------------------
(***************************************************************************)
(* The attributes the data model stores itself: their values in RAM, in    *)
(* NVS and in the driver of the application (esp_matter_data_model.cpp,    *)
(* private/esp_matter_nvs.cpp, esp_matter_attribute_utils.cpp and the      *)
(* write path of esp_matter_data_model_provider.cpp).                      *)
(*                                                                         *)
(* attribute::create takes the value from NVS or stores the default;       *)
(* enabling the endpoint adds the bounds; from then on the application     *)
(* (update, report) and controllers (WriteAttribute) set values.  Setting  *)
(* one calls the application before (PRE_UPDATE, which drives the          *)
(* hardware) and after (POST_UPDATE, which may set values itself), then    *)
(* writes NVS, or leaves it to a timer if the attribute is deferred.       *)
(* Everything after boot runs under the stack lock, so calls only nest.    *)
(* A restart can come between any two steps.  NVS operations succeed here  *)
(* (their failures are in Bridge and EndpointTable), allocations too.      *)
(***************************************************************************)
EXTENDS Naturals, Sequences

CONSTANTS
    Addr,            \* the _attribute_t objects the heap can hold
    Path,            \* attribute paths: endpoint, cluster and attribute id
    Strings,         \* the paths of a string type; the others are numeric
    Nonvolatile,     \* the paths with ATTRIBUTE_FLAG_NONVOLATILE
    Deferrable,      \* those the application calls set_deferred_persistence for
    Bounds,          \* path |-> [lo, hi], for the paths with an add_bounds callback
    Default,         \* path |-> the value attribute::create is given
    MaxSize,         \* path |-> max_val_size, for strings
    Inputs,          \* path |-> the values callers set
    Legacy,          \* path |-> the value an older firmware left under the previous key
    Garbage,         \* what an uninitialised uint16_t may hold
    MaxDepth,        \* bound of the model: how deep updates nest in callbacks
    Null,            \* the null value of a nullable type
    NoVal            \* no value

\* esp_matter_attr_val_t, as far as the type of the attribute at p lets it vary.
Value(p) == {Null} \cup (IF p \in Strings THEN Seq(Nat) ELSE Nat)

\* The data model an application builds is well-formed: defaults, inputs and
\* what an older firmware stored have the type of their attribute, and only
\* numbers have bounds.
ASSUME AttrAssumption ==
    /\ Strings \subseteq Path
    /\ Deferrable \subseteq Nonvolatile /\ Nonvolatile \subseteq Path
    /\ DOMAIN Bounds \subseteq Path \ Strings
    /\ \A p \in DOMAIN Bounds : Bounds[p].lo \in Nat /\ Bounds[p].hi \in Nat
    /\ \A p \in DOMAIN Bounds : Bounds[p].lo <= Bounds[p].hi
    /\ \A p \in Path : Default[p] \in Value(p) /\ Inputs[p] \subseteq Value(p)
    /\ DOMAIN Legacy \subseteq Path
    /\ \A p \in DOMAIN Legacy : Legacy[p] \in Value(p) /\ (p \in Strings => Legacy[p] # Null)
    /\ \A p \in Path : MaxSize[p] \in Nat
    /\ Garbage \subseteq Nat
    /\ Null \notin Nat /\ Null \notin Seq(Nat)

VARIABLES
    attrs,           \* the attribute lists: live objects and what they hold
    freed,           \* what is left in memory of objects freed with an active timer
    timers,          \* the objects a deferred_attribute_write timer is active for
    stack,           \* the calls of set_val_internal between assignment and NVS write
    nv,              \* path |-> value in the KVS namespace
    nvOld,           \* path |-> value under the previous key
    driver,          \* path |-> what the application last drove the hardware to
    failed,          \* history: paths whose last value was refused after the hardware had it
    durable,         \* history: path |-> value the data model last counted as stored
    dangling         \* history: paths destroyed with their deferred write still to come

vars == <<attrs, freed, timers, stack, nv, nvOld, driver, failed, durable, dangling>>

nvs == <<nv, nvOld, durable>>

Empty == [x \in {} |-> x]
Put(f, k, v) == [x \in DOMAIN f \cup {k} |-> IF x = k THEN v ELSE f[x]]
Del(f, k) == [x \in DOMAIN f \ {k} |-> f[x]]

Live == DOMAIN attrs

LivePaths == {attrs[a].path : a \in Live}

Idle == stack = <<>>

\* A calloc'ed value.
Zero(p) == IF p \in Strings THEN <<>> ELSE 0

Bounded(a) == attrs[a].ready /\ attrs[a].path \in DOMAIN Bounds

\* compare_attr_val_with_bounds = 0: null is always in range.
InRange(p, v) == v # Null => Bounds[p].lo <= v /\ v <= Bounds[p].hi

\* bound_attribute_val
Clamp(p, v) ==
    IF InRange(p, v) THEN v ELSE IF v < Bounds[p].lo THEN Bounds[p].lo ELSE Bounds[p].hi

Init ==
    /\ attrs = Empty /\ freed = Empty
    /\ timers = {} /\ stack = <<>>
    /\ nv = Empty /\ nvOld = Legacy
    /\ driver = [p \in Path |-> NoVal]
    /\ failed = {} /\ durable = Empty /\ dangling = {}

-----------------------------------------------------------------------------
(* set_val_internal *)

\* The string is longer than attribute_val.a.max.
TooLong(a, v) ==
    attrs[a].path \in Strings /\ v # Null /\ Len(v) > attrs[a].max

\* What the assignment leaves in RAM: an empty string is not assigned.
Assigned(a, v) == IF attrs[a].path \in Strings /\ v = <<>> THEN attrs[a].val ELSE v

\* The checks before the first callback: bounds, and that the value changes.
Accepts(a, v) ==
    /\ Bounded(a) => InRange(attrs[a].path, v)
    /\ v # attrs[a].val

\* The call up to POST_UPDATE, with the callbacks or (report, create) without.
Assign(a, v, callbacks) ==
    /\ attrs' = [attrs EXCEPT ![a].val = Assigned(a, v)]
    /\ stack' = Append([i \in DOMAIN stack |-> [addr |-> stack[i].addr, callbacks |-> FALSE]],
                       [addr |-> a, callbacks |-> callbacks])
    /\ UNCHANGED <<freed, timers>>

\* An update may begin when nothing runs, or inside a POST_UPDATE callback
\* (bound of the model: a callback makes one at most).
MayBegin == ~Idle => Len(stack) < MaxDepth /\ stack[Len(stack)].callbacks

\* nvs_store_val: a null string is stored by erasing its key.
NvsStore(p, v) ==
    nv' = IF p \in Strings /\ v = Null THEN Del(nv, p) ELSE Put(nv, p, v)

Top == stack[Len(stack)].addr

\* Mutant: the timer is not started.
Persist_NoTimer ==
    /\ ~Idle
    /\ LET r == attrs[Top]
       IN IF r.path \in Nonvolatile /\ ~r.deferred
          THEN NvsStore(r.path, r.val) /\ durable' = Put(durable, r.path, r.val)
          ELSE UNCHANGED <<nv, durable>>
    /\ timers' = timers
    /\ stack' = SubSeq(stack, 1, Len(stack) - 1)
    /\ UNCHANGED <<attrs, freed, nvOld, driver, failed, dangling>>

\* Mutant: the key is written on the first change only.
Persist_Once ==
    /\ ~Idle
    /\ LET r == attrs[Top]
       IN /\ IF r.path \in Nonvolatile /\ ~r.deferred
             THEN /\ IF r.path \in DOMAIN nv THEN nv' = nv ELSE NvsStore(r.path, r.val)
                  /\ durable' = Put(durable, r.path, r.val)
             ELSE UNCHANGED <<nv, durable>>
          /\ timers' = IF r.path \in Nonvolatile /\ r.deferred THEN timers \cup {Top} ELSE timers
    /\ stack' = SubSeq(stack, 1, Len(stack) - 1)
    /\ UNCHANGED <<attrs, freed, nvOld, driver, failed, dangling>>

\* The rest of the call, after POST_UPDATE: the value the attribute has by then
\* is stored, or the timer started unless it is active.
Persist ==
    /\ ~Idle
    /\ LET r == attrs[Top]
       IN /\ IF r.path \in Nonvolatile /\ ~r.deferred
             THEN NvsStore(r.path, r.val) /\ durable' = Put(durable, r.path, r.val)
             ELSE UNCHANGED <<nv, durable>>
          /\ timers' = IF r.path \in Nonvolatile /\ r.deferred THEN timers \cup {Top} ELSE timers
    /\ stack' = SubSeq(stack, 1, Len(stack) - 1)
    /\ UNCHANGED <<attrs, freed, nvOld, driver, failed, dangling>>

-----------------------------------------------------------------------------
(* Callers *)

\* Mutant: PRE_UPDATE comes before the checks.
Update_PreFirst(a, v) ==
    /\ MayBegin
    /\ a \in Live /\ attrs[a].ready
    /\ driver' = [driver EXCEPT ![attrs[a].path] = v]
    /\ failed' = failed \ {attrs[a].path}
    /\ IF Accepts(a, v) /\ ~TooLong(a, v)
       THEN Assign(a, v, TRUE) ELSE UNCHANGED <<attrs, freed, timers, stack>>
    /\ UNCHANGED <<nvs, dangling>>

\* attribute::update with a value PRE_UPDATE accepts.  One it rejects, and one
\* that is out of bounds or no change, changes nothing.
Update(a, v) ==
    /\ MayBegin
    /\ a \in Live /\ attrs[a].ready
    /\ Accepts(a, v)
    /\ driver' = [driver EXCEPT ![attrs[a].path] = v]
    /\ IF TooLong(a, v)
       THEN /\ failed' = failed \cup {attrs[a].path}
            /\ UNCHANGED <<attrs, freed, timers, stack>>
       ELSE /\ failed' = failed \ {attrs[a].path}
            /\ Assign(a, v, TRUE)
    /\ UNCHANGED <<nvs, dangling>>

\* attribute::report: the hardware has changed already, no callbacks.  The
\* attribute follows; or it has the value; or the value is out of its bounds or
\* too long, report fails and the hardware is left with a value of its own.
Report(a, v) ==
    /\ MayBegin
    /\ a \in Live /\ attrs[a].ready
    /\ driver' = [driver EXCEPT ![attrs[a].path] = v]
    /\ \/ /\ Accepts(a, v) /\ ~TooLong(a, v)
          /\ failed' = failed \ {attrs[a].path}
          /\ Assign(a, v, FALSE)
       \/ /\ v = attrs[a].val
          /\ failed' = failed \ {attrs[a].path}
          /\ UNCHANGED <<attrs, freed, timers, stack>>
       \/ /\ v # attrs[a].val
          /\ ~Accepts(a, v) \/ TooLong(a, v)
          /\ failed' = failed \cup {attrs[a].path}
          /\ UNCHANGED <<attrs, freed, timers, stack>>
    /\ UNCHANGED <<nvs, dangling>>

\* provider::WriteAttribute: PRE_UPDATE comes first.  Then the write is refused
\* (the data version or the size does not match, the value is out of bounds, or
\* the second PRE_UPDATE, of set_val_internal, fails) or ignored on the word of
\* the cluster; or the value is the one the attribute has; or it is set.  The
\* second POST_UPDATE comes after all this: an update it makes is one that
\* begins when nothing runs.
Write(a, v) ==
    /\ Idle
    /\ a \in Live /\ attrs[a].ready
    /\ driver' = [driver EXCEPT ![attrs[a].path] = v]
    /\ \/ /\ failed' = failed \cup {attrs[a].path}
          /\ UNCHANGED <<attrs, freed, timers, stack>>
       \/ /\ v = attrs[a].val
          /\ failed' = failed \ {attrs[a].path}
          /\ UNCHANGED <<attrs, freed, timers, stack>>
       \/ /\ Accepts(a, v) /\ ~TooLong(a, v)
          /\ failed' = failed \ {attrs[a].path}
          /\ Assign(a, v, TRUE)
    /\ UNCHANGED <<nvs, dangling>>

-----------------------------------------------------------------------------
(* Life of an attribute *)

Padded(s, n) == [i \in 1 .. (IF n > Len(s) THEN n ELSE Len(s)) |-> IF i <= Len(s) THEN s[i] ELSE 0]

\* get_val_from_nvs into the temp_val of attribute::create.  Of a string,
\* temp_val.val is not initialised: its size is a lower bound for the size
\* that is read, and its max takes the place of max_val_size.
Restored(p, v) ==
    IF p \in Strings
    THEN {[val |-> Padded(v, s), max |-> m] : s \in Garbage, m \in Garbage}
    ELSE {[val |-> v, max |-> MaxSize[p]]}

NewAttr(p, val, max) ==
    [path |-> p, val |-> val, max |-> max, deferred |-> FALSE, ready |-> FALSE]

\* attribute::create.  A value under the previous key is erased there and then
\* stored under the current one, and a default other than zero is stored, by
\* the Persist that follows.
Create(a, p) ==
    /\ Idle
    /\ a \notin Live /\ p \notin LivePaths
    /\ \/ /\ p \in Nonvolatile /\ p \in DOMAIN nv
          /\ \E r \in Restored(p, nv[p]) : attrs' = Put(attrs, a, NewAttr(p, r.val, r.max))
          /\ UNCHANGED <<stack, nvOld>>
       \/ /\ p \in Nonvolatile /\ p \notin DOMAIN nv /\ p \in DOMAIN nvOld
          /\ \E r \in Restored(p, nvOld[p]) : attrs' = Put(attrs, a, NewAttr(p, r.val, r.max))
          /\ nvOld' = Del(nvOld, p)
          /\ stack' = <<[addr |-> a, callbacks |-> FALSE]>>
       \/ /\ p \in Nonvolatile => p \notin DOMAIN nv \cup DOMAIN nvOld
          /\ attrs' = Put(attrs, a, NewAttr(p, Default[p], MaxSize[p]))
          /\ stack' = IF Default[p] = Zero(p)
                      THEN stack ELSE <<[addr |-> a, callbacks |-> FALSE]>>
          /\ UNCHANGED nvOld
    /\ freed' = Del(freed, a)
    /\ UNCHANGED <<timers, nv, driver, failed, durable, dangling>>

\* set_deferred_persistence
SetDeferred(a) ==
    /\ Idle
    /\ a \in Live /\ attrs[a].path \in Deferrable
    /\ attrs' = [attrs EXCEPT ![a].deferred = TRUE]
    /\ UNCHANGED <<freed, timers, stack, nvs, driver, failed, dangling>>

\* Mutant: the value is not brought into the bounds.
Enable_NoClamp(a) ==
    /\ Idle
    /\ a \in Live /\ ~attrs[a].ready
    /\ attrs' = [attrs EXCEPT ![a].ready = TRUE]
    /\ UNCHANGED <<freed, timers, stack, nvs, driver, failed, dangling>>

\* The endpoint is enabled: invoke_init_callbacks adds the bounds (add_bounds),
\* which brings the value in RAM into them and leaves NVS as it is.
Enable(a) ==
    /\ Idle
    /\ a \in Live /\ ~attrs[a].ready
    /\ attrs' = [attrs EXCEPT ![a].ready = TRUE,
                              ![a].val = IF attrs[a].path \in DOMAIN Bounds
                                         THEN Clamp(attrs[a].path, @) ELSE @]
    /\ UNCHANGED <<freed, timers, stack, nvs, driver, failed, dangling>>

\* Mutant: an attribute is destroyed in the middle of a call that sets it.
Destroy_InCallback(a) ==
    /\ a \in Live
    /\ nv' = IF attrs[a].path \in Nonvolatile THEN Del(nv, attrs[a].path) ELSE nv
    /\ durable' = Del(durable, attrs[a].path)
    /\ freed' = IF a \in timers THEN Put(freed, a, attrs[a]) ELSE freed
    /\ attrs' = Del(attrs, a)
    /\ UNCHANGED <<timers, stack, nvOld, driver, failed, dangling>>

\* attribute::destroy, cluster::destroy or endpoint::destroy: the value is
\* erased in NVS and the object freed.  An active timer is left active.
Destroy(a) ==
    /\ Idle
    /\ a \in Live
    /\ LET p == attrs[a].path
       IN /\ nv' = IF p \in Nonvolatile THEN Del(nv, p) ELSE nv
          /\ durable' = Del(durable, p)
          /\ driver' = [driver EXCEPT ![p] = NoVal]
          /\ failed' = failed \ {p}
          /\ dangling' = IF a \in timers THEN dangling \cup {p} ELSE dangling
    /\ freed' = IF a \in timers THEN Put(freed, a, attrs[a]) ELSE freed
    /\ attrs' = Del(attrs, a)
    /\ UNCHANGED <<timers, stack, nvOld>>

\* deferred_attribute_write, on the Matter task.  The object may have been
\* freed: then what memory still holds of it is written, or nothing sensible.
TimerFire(a) ==
    /\ Idle
    /\ a \in timers
    /\ timers' = timers \ {a}
    /\ \/ /\ a \in Live
          /\ NvsStore(attrs[a].path, attrs[a].val)
          /\ durable' = Put(durable, attrs[a].path, attrs[a].val)
       \/ /\ a \notin Live
          /\ NvsStore(freed[a].path, freed[a].val) \/ nv' = nv
          /\ UNCHANGED durable
    /\ freed' = Del(freed, a)
    /\ UNCHANGED <<attrs, stack, nvOld, driver, failed, dangling>>

\* A restart or power loss at any point: only NVS is kept.
Restart ==
    /\ attrs' = Empty /\ freed' = Empty
    /\ timers' = {} /\ stack' = <<>>
    /\ driver' = [p \in Path |-> NoVal]
    /\ failed' = {}
    /\ UNCHANGED <<nvs, dangling>>

Next ==
    \/ \E a \in Addr :
          \/ \E p \in Path : Create(a, p)
          \/ SetDeferred(a) \/ Enable(a) \/ Destroy(a) \/ TimerFire(a)
          \/ /\ a \in Live
             /\ \E v \in Inputs[attrs[a].path] : Update(a, v) \/ Report(a, v) \/ Write(a, v)
    \/ Persist \/ Restart

Spec == Init /\ [][Next]_vars

\* A call that has begun goes on; the event loop of the Matter task runs the
\* timers that are due before it takes the next event.
FairSpec ==
    /\ Spec
    /\ WF_vars(Persist)
    /\ \A a \in Addr : SF_vars(TimerFire(a))

-----------------------------------------------------------------------------

\* An attribute object.
AttrOK(r) ==
    /\ r \in [path : Path, val : Value(r.path), max : Nat, deferred : BOOLEAN, ready : BOOLEAN]
    /\ r.deferred => r.path \in Nonvolatile

\* NVS holds values of their attribute's type, and no null string.
StoredOK(f) ==
    /\ DOMAIN f \subseteq Path
    /\ \A p \in DOMAIN f : f[p] \in Value(p) /\ (p \in Strings => f[p] # Null)

\* Type invariant: values have the type of their attribute in RAM and NVS; calls
\* in progress refer to live objects, timers to live ones or their remains.
AttrTypeOK ==
    /\ Live \subseteq Addr /\ \A a \in Live : AttrOK(attrs[a])
    /\ DOMAIN freed \subseteq Addr /\ \A a \in DOMAIN freed : AttrOK(freed[a])
    /\ timers \subseteq Live \cup DOMAIN freed
    /\ stack \in Seq([addr : Live, callbacks : BOOLEAN])
    /\ StoredOK(nv) /\ StoredOK(nvOld)
    /\ DOMAIN driver = Path
    /\ failed \subseteq Path /\ dangling \subseteq Path

\* No path has two attribute objects: attribute::get, which returns the first
\* of the list, NVS, which is keyed by path, and the timer agree on the value.
OneObjectPerPath ==
    \A a, b \in Live : attrs[a].path = attrs[b].path => a = b

\* Once the bounds are added a numeric attribute is within them or null, also
\* inside callbacks and after a restart with an out-of-bounds value in NVS.
WithinBounds ==
    \A a \in Live : Bounded(a) => InRange(attrs[a].path, attrs[a].val)

\* What attribute::create and add_bounds make of the value counted as stored.
Kept(a) ==
    LET p == attrs[a].path
        v == IF p \in DOMAIN durable THEN durable[p] ELSE Default[p]
    IN IF Bounded(a) THEN Clamp(p, v) ELSE v

\* With no call in progress, a non-volatile attribute has the value last counted
\* as stored, across restarts too, unless its deferred write is still to come:
\* no change is lost other than by a restart within the deferral time.  (After
\* the path was destroyed with that write pending, an old value may return.)
StoredComesBack ==
    Idle => \A a \in Live : attrs[a].path \in Nonvolatile \ dangling
                              => a \in timers \/ attrs[a].val = Kept(a)

\* The hardware and a numeric attribute differ only when the last value that
\* reached the hardware was refused: a write of a controller, after its
\* PRE_UPDATE, or a report of a value outside the bounds.  Otherwise the driver
\* has the value that is set, nested updates included, and the next value that
\* is set brings the two together again (esp_matter_data_model.cpp:754-812).
DriverMatches ==
    Idle => \A a \in Live :
        LET p == attrs[a].path
        IN p \in Strings \/ p \in failed \/ driver[p] \in {NoVal, attrs[a].val}

\* The application is notified of values the attribute takes, so with no call in
\* progress the hardware does what the attribute says.
DriverFollows ==
    Idle => \A a \in Live : driver[attrs[a].path] \in {NoVal, attrs[a].val}

\* The value in RAM of path p and the one counted as stored.
Unstored(p) ==
    \E a \in Live : attrs[a].path = p /\ attrs[a].val # Kept(a)

\* A changed value of a deferred attribute gets to NVS, however often it is
\* changed again meanwhile, unless the object goes away.
EventuallyStored ==
    \A p \in Deferrable : Unstored(p) ~> ~Unstored(p) \/ p \in dangling

=============================================================================
