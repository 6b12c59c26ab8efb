------------------------------- MODULE Accounts -------------------------------
(***************************************************************************)
(* The account records of accounts_store.c: the decrypted array in RAM,    *)
(* the changes made to it, each saved at once and undone when the save     *)
(* fails, the active profile, and the import of a backup.                  *)
(*                                                                         *)
(* The store below is what Vault promises: an unlock delivers one of       *)
(* `copies`, the array of the last acknowledged save or one whose save     *)
(* failed since.  The tasks that share the array are in Session; here one  *)
(* call runs at a time.                                                    *)
(*                                                                         *)
(* A name or profile is <<rank, spelling>>: those of one rank differ in    *)
(* case only and ranks are in the order of strcasecmp.  Rank 0 is the      *)
(* empty string; among the profiles "Default" too, in any case.            *)
(***************************************************************************)
EXTENDS Integers, SequencesExt

CONSTANTS
    Names, Profiles,       \* spelled names and profiles
    Data,                  \* the parts of a record besides its keys
    BadKeys, BadParams,    \* ... with a TOTP key refused, with digits or a period refused
    Codes,                 \* how many recovery codes each of Data holds
    Inputs,                \* records the account editor saves
    Targets,               \* names a profile is given
    Backups,               \* contents of backup files
    Samples,               \* the demo accounts
    MaxAccounts, IdMod,    \* MSF_STORE_MAX_ACCOUNTS, 2^16
    MaxId, MaxFailed       \* bounds of the model: identifiers, failed saves

Rank(p) == p[1]
NoName == 0
Default == <<0, 0>>

\* What an editor or a backup file says of an account.
IsInput(a) ==
    /\ a \in [profile : Profiles, name : Names, data : Data, used : SUBSET Nat]
    /\ a.used \subseteq 1..Codes[a.data]

ASSUME AccountsAssumption ==
    /\ Profiles \subseteq Nat \X Nat /\ Names \subseteq Nat \X Nat
    /\ Default \in Profiles /\ Targets \subseteq Profiles
    /\ BadKeys \cup BadParams \subseteq Data /\ Codes \in [Data -> Nat]
    /\ MaxAccounts \in Nat \ {0} /\ IdMod \in Nat /\ MaxFailed \in Nat
    /\ MaxId \in Nat /\ MaxId + 1 < IdMod
    /\ \A a \in Inputs : IsInput(a)
    /\ \A b \in Backups \cup {Samples} : b \in Seq(Range(b)) /\ \A a \in Range(b) : IsInput(a)
    /\ \A a \in Range(Samples) : a.profile = Default

VARIABLES
    state,                 \* msf_store_state
    recs, s_profile,       \* s_recs and s_count; the active profile
    hash,                  \* settings: hash of the profile shown last
    stored, copies,        \* the store: array of its current slot, arrays it may deliver
    emptied                \* the array was wiped under an unlocked store

vars == <<state, recs, s_profile, hash, stored, copies, emptied>>

-----------------------------------------------------------------------------
(***************************************************************************)
(* Profiles.                                                               *)
(***************************************************************************)
Canon(p) == IF Rank(p) = 0 THEN Default ELSE p

ProfileEq(p, q) == Rank(p) = Rank(q)

\* CRC32 of the lower-case name, 0 for the default; collisions are left out.
Hash(p) == Rank(p)

Used(r, p) == \E i \in DOMAIN r : ProfileEq(r[i].profile, p)

\* The profile after p in name order, the first one after the last; its
\* spelling is that of the first record of it.
LowestOf(r, S) ==
    LET low == Min({Rank(r[i].profile) : i \in S})
    IN r[Min({i \in S : Rank(r[i].profile) = low})].profile

FirstProfile(r) == LowestOf(r, DOMAIN r)

\* Wrong on purpose: after the last profile comes the last one.
ProfileAfterLast(r, p) ==
    LET later == {i \in DOMAIN r : Rank(r[i].profile) > Rank(p)}
    IN IF later = {} THEN p ELSE LowestOf(r, later)

ProfileAfter(r, p) ==
    LET later == {i \in DOMAIN r : Rank(r[i].profile) > Rank(p)}
    IN IF later = {} THEN FirstProfile(r) ELSE LowestOf(r, later)

\* Wrong on purpose: the selection is not remembered.
SelectUnsaved(active, p) == <<Canon(p), active[2]>>

\* The active profile and the hash the settings keep, as a pair: after a
\* selection, after a change of the array, and after an unlock.
Select(active, p) ==
    IF active[1] = Canon(p) THEN active ELSE <<Canon(p), Hash(p)>>

\* Wrong on purpose: nothing is selected when the last account is gone.
CheckUsed(r, active) ==
    IF r = <<>> \/ Used(r, active[1]) THEN active ELSE Select(active, FirstProfile(r))

Check(r, active) ==
    IF r = <<>> THEN Select(active, Default)
    ELSE IF Used(r, active[1]) THEN active
    ELSE Select(active, FirstProfile(r))

Restore(r, h) ==
    LET kept == {i \in DOMAIN r : Hash(r[i].profile) = h}
    IN IF kept # {} THEN <<r[Min(kept)].profile, h>> ELSE Check(r, <<Default, h>>)

Active == <<s_profile, hash>>

SetActive(active) == s_profile' = active[1] /\ hash' = active[2]

-----------------------------------------------------------------------------
(***************************************************************************)
(* Records.                                                                *)
(***************************************************************************)
SameKey(a, b) == ProfileEq(a.profile, b.profile) /\ Rank(a.name) = Rank(b.name)

NextId(r) == (Max({r[i].id : i \in DOMAIN r} \cup {0}) + 1) % IdMod

\* Wrong on purpose: the profile is kept as it was typed.
RecordAsTyped(a, id) ==
    [id |-> id, profile |-> a.profile, name |-> a.name, data |-> a.data, used |-> a.used]

Record(a, id) ==
    [id |-> id, profile |-> Canon(a.profile), name |-> a.name, data |-> a.data, used |-> a.used]

\* The checks of validate() on the record alone; import_valid() makes them and
\* more.
Acceptable(a) == Rank(a.name) # NoName /\ a.data \notin BadKeys

Usable(a) == Acceptable(a) /\ a.data \notin BadParams

Valid(r, a, self) ==
    Acceptable(a) /\ \A i \in DOMAIN r : r[i].id = self \/ ~SameKey(r[i], a)

\* The records of r that are not in `gone`, in their order.
Without(r, gone) ==
    FoldLeft(LAMBDA kept, x : IF x \in gone THEN kept ELSE Append(kept, x), <<>>, r)

Find(id) == {i \in DOMAIN recs : id # 0 /\ recs[i].id = id}

Wiped ==
    /\ recs' = <<>> /\ s_profile' = Default /\ stored' = <<>> /\ emptied' = FALSE

\* Every change: the new array is saved, or the save fails and the change
\* is undone, or power fails in the save or before the profile is selected.
Saved(new, active) ==
    /\ recs' = new /\ stored' = new /\ copies' = {new} /\ emptied' = FALSE
    /\ SetActive(active)
    /\ UNCHANGED state

SaveFails(new, undone, active) ==
    /\ Cardinality(copies \cup {new}) <= MaxFailed + 1
    /\ recs' = undone /\ copies' = copies \cup {new}
    /\ SetActive(active)
    /\ UNCHANGED <<state, stored, emptied>>

PowerFails(new) ==
    /\ Cardinality(copies \cup {new}) <= MaxFailed + 1
    /\ \E c \in {copies \cup {new}, {new}} : copies' = c
    /\ state' = "LOCKED" /\ Wiped
    /\ UNCHANGED hash

Change(new, undone, active, activeIfFailed) ==
    /\ \A i \in DOMAIN new : new[i].id <= MaxId
    /\ \/ Saved(new, active)
       \/ SaveFails(new, undone, activeIfFailed)
       \/ PowerFails(new)

\* accounts_add, accounts_update, accounts_rcv_mark_used, accounts_remove.
Add(a) ==
    /\ state = "UNLOCKED" /\ Valid(recs, a, 0) /\ Len(recs) < MaxAccounts
    /\ LET new == Append(recs, Record(a, NextId(recs)))
       IN Change(new, Front(new), Select(Active, a.profile), Active)

Update(id, a) ==
    /\ state = "UNLOCKED" /\ Valid(recs, a, id)
    /\ \E i \in Find(id) :
         LET new == [recs EXCEPT ![i] = Record(a, id)]
         IN Change(new, [new EXCEPT ![i] = recs[i]], Select(Active, a.profile), Active)

MarkUsed(id) ==
    /\ state = "UNLOCKED"
    /\ \E i \in Find(id) : \E code \in 1..Codes[recs[i].data] :
         LET new == [recs EXCEPT ![i].used = @ \cup {code}]
         IN Change(new, [new EXCEPT ![i].used = recs[i].used], Active, Active)

\* Wrong on purpose: a removal that fails puts the account back at the end.
RemoveIdMoved(id) ==
    /\ state = "UNLOCKED"
    /\ \E i \in Find(id) :
         LET new == RemoveAt(recs, i)
         IN Change(new, Append(new, recs[i]), Check(new, Active), Active)

RemoveId(id) ==
    /\ state = "UNLOCKED"
    /\ \E i \in Find(id) :
         LET new == RemoveAt(recs, i)
         IN Change(new, InsertAt(new, i, recs[i]), Check(new, Active), Active)

\* Wrong on purpose: names are compared as they are spelled.
ClashExact(from, to) ==
    /\ ~ProfileEq(from, to)
    /\ \E i, j \in DOMAIN recs :
         /\ ProfileEq(recs[i].profile, from) /\ ProfileEq(recs[j].profile, to)
         /\ recs[i].name = recs[j].name

\* accounts_profile_rename, accounts_profile_delete, accounts_profile_next.
Clash(from, to) ==
    /\ ~ProfileEq(from, to)
    /\ \E i, j \in DOMAIN recs :
         ProfileEq(recs[i].profile, from) /\ SameKey(recs[j], [recs[i] EXCEPT !.profile = to])

ProfileRename(from, to) ==
    /\ state = "UNLOCKED" /\ Used(recs, from) /\ ~Clash(from, to)
    /\ LET new == [i \in DOMAIN recs |->
                     IF ProfileEq(recs[i].profile, from)
                     THEN [recs[i] EXCEPT !.profile = Canon(to)] ELSE recs[i]]
           undone == [i \in DOMAIN new |-> [new[i] EXCEPT !.profile = recs[i].profile]]
       IN Change(new, undone,
                 IF ProfileEq(s_profile, from) THEN Select(Active, to) ELSE Active, Active)

ProfileDelete(p) ==
    /\ state = "UNLOCKED" /\ Used(recs, p)
    /\ LET new == Without(recs, {r \in Range(recs) : ProfileEq(r.profile, p)})
       IN Change(new, recs, Check(new, Active), Active)

ProfileNext ==
    /\ state = "UNLOCKED" /\ recs # <<>>
    /\ SetActive(Select(Active, ProfileAfter(recs, s_profile)))
    /\ UNCHANGED <<state, recs, stored, copies, emptied>>

-----------------------------------------------------------------------------
(***************************************************************************)
(* Import of a backup, and the demo accounts.                              *)
(***************************************************************************)
Modes == {"merge", "replace"}

InBackup(b, r) == \E i \in DOMAIN b : SameKey(b[i], r) /\ Usable(b[i])

\* Wrong on purpose: an unusable record of the backup counts for its profile.
RemovesUnusable(b, mode, r) ==
    /\ mode = "replace"
    /\ \E i \in DOMAIN b : ProfileEq(b[i].profile, r.profile)
    /\ ~InBackup(b, r)

\* Replace removes an account whose profile is in the backup and which is not.
Removes(b, mode, r) ==
    /\ mode = "replace"
    /\ \E i \in DOMAIN b : ProfileEq(b[i].profile, r.profile) /\ Usable(b[i])
    /\ ~InBackup(b, r)

FindKey(r, a) == {i \in DOMAIN r : SameKey(r[i], a)}

SameRecord(r, a) ==
    r.name = a.name /\ r.profile = Canon(a.profile) /\ r.data = a.data /\ r.used = a.used

\* Wrong on purpose: the room of the accounts Replace removes is not counted.
PreviewTight(r, b, mode) ==
    LET usable == {i \in DOMAIN b : Usable(b[i])}
        found == {i \in usable : FindKey(r, b[i]) # {}}
        same == {i \in found : SameRecord(r[Min(FindKey(r, b[i]))], b[i])}
        new == Cardinality(usable \ found)
        room == MaxAccounts - Len(r)
    IN [total |-> Len(b), invalid |-> Len(b) - Cardinality(usable),
        added |-> Min({new, room}), full |-> Max({new - room, 0}),
        changed |-> Cardinality(found \ same), unchanged |-> Cardinality(same),
        removed |-> Cardinality({j \in DOMAIN r : Removes(b, mode, r[j])})]

\* accounts_import_preview; accounts_import returns the same summary.
Preview(r, b, mode) ==
    LET usable == {i \in DOMAIN b : Usable(b[i])}
        found == {i \in usable : FindKey(r, b[i]) # {}}
        same == {i \in found : SameRecord(r[Min(FindKey(r, b[i]))], b[i])}
        removed == Cardinality({j \in DOMAIN r : Removes(b, mode, r[j])})
        new == Cardinality(usable \ found)
        room == MaxAccounts - Len(r) + removed
    IN [total |-> Len(b), invalid |-> Len(b) - Cardinality(usable),
        added |-> Min({new, room}), full |-> Max({new - room, 0}),
        changed |-> Cardinality(found \ same), unchanged |-> Cardinality(same),
        removed |-> removed]

\* Wrong on purpose: a changed record gets a new identifier.
ImportOneRenumbered(r, a) ==
    IF ~Usable(a) THEN r
    ELSE IF FindKey(r, a) # {}
    THEN LET at == Min(FindKey(r, a)) IN [r EXCEPT ![at] = Record(a, NextId(r))]
    ELSE IF Len(r) < MaxAccounts THEN Append(r, Record(a, NextId(r))) ELSE r

ImportOne(r, a) ==
    IF ~Usable(a) THEN r
    ELSE IF FindKey(r, a) # {}
    THEN LET at == Min(FindKey(r, a)) IN [r EXCEPT ![at] = Record(a, @.id)]
    ELSE IF Len(r) < MaxAccounts THEN Append(r, Record(a, NextId(r))) ELSE r

Imported(r, b, mode) ==
    FoldLeft(ImportOne, Without(r, {x \in Range(r) : Removes(b, mode, x)}), b)

\* Nothing is written when the summary has no change.
Writes(r, b, mode) ==
    LET sum == Preview(r, b, mode) IN sum.added + sum.changed + sum.removed > 0

AfterImport(r, b, mode) == IF Writes(r, b, mode) THEN Imported(r, b, mode) ELSE r

Import(b, mode) ==
    /\ state = "UNLOCKED" /\ Writes(recs, b, mode)
    /\ LET new == AfterImport(recs, b, mode)
       IN Change(new, recs, Check(new, Active), Check(recs, Active))

\* accounts_records_set_profile: a backup imported into one profile.
Into(b, p) == [i \in DOMAIN b |-> [b[i] EXCEPT !.profile = Canon(p)]]

Readings(b) == {b} \cup {Into(b, p) : p \in Targets}

AddSample(r, a) ==
    IF Len(r) < MaxAccounts /\ Valid(r, a, 0) THEN Append(r, Record(a, NextId(r))) ELSE r

LoadDemo ==
    /\ state = "UNLOCKED"
    /\ LET new == FoldLeft(AddSample, recs, Samples)
       IN /\ new # recs
          /\ Change(new, SubSeq(new, 1, Len(recs)), Active, Active)

-----------------------------------------------------------------------------
(***************************************************************************)
(* The store.                                                              *)
(***************************************************************************)
Unlock(c) ==
    /\ state # "BLANK" /\ c \in copies
    /\ state' = "UNLOCKED" /\ recs' = c /\ stored' = c /\ emptied' = FALSE
    /\ SetActive(Restore(c, hash))
    /\ UNCHANGED copies

\* A wrong PIN, or a create while a store exists: the array is wiped first.
Refused ==
    /\ state # "BLANK"
    /\ recs' = <<>> /\ s_profile' = Default /\ emptied' = (state = "UNLOCKED")
    /\ UNCHANGED <<state, hash, stored, copies>>

Create ==
    /\ state = "BLANK"
    /\ state' = "UNLOCKED" /\ copies' = {<<>>} /\ Wiped
    /\ UNCHANGED hash

\* accounts_change_pin stores the array again, in both slots; when that fails
\* the store is locked and the array stays in RAM, out of reach.
ChangeFails ==
    /\ Cardinality(copies \cup {recs}) <= MaxFailed + 1
    /\ state' = "LOCKED" /\ copies' = copies \cup {recs}
    /\ stored' = <<>> /\ emptied' = FALSE
    /\ UNCHANGED <<recs, s_profile, hash>>

ChangePin ==
    /\ state = "UNLOCKED"
    /\ Saved(recs, Active) \/ ChangeFails \/ PowerFails(recs)

\* accounts_lock, a sleep or a restart.
Lock ==
    /\ state # "BLANK"
    /\ state' = "LOCKED" /\ Wiped
    /\ UNCHANGED <<hash, copies>>

\* The console's erase locks first.
Erase ==
    /\ state # "BLANK"
    /\ state' = "BLANK" /\ copies' = {} /\ Wiped
    /\ UNCHANGED hash

Init ==
    /\ state = "BLANK" /\ copies = {} /\ stored = <<>> /\ emptied = FALSE
    /\ recs = <<>> /\ s_profile = Default /\ hash = Hash(Default)

Edit ==
    \/ \E a \in Inputs : Add(a) \/ \E id \in 1..MaxId : Update(id, a)
    \/ \E id \in 1..MaxId : MarkUsed(id) \/ RemoveId(id)

EditProfile ==
    \/ \E from \in Profiles : ProfileDelete(from) \/ \E to \in Targets : ProfileRename(from, to)
    \/ ProfileNext

Bulk == LoadDemo \/ \E b \in Backups, mode \in Modes : \E in \in Readings(b) : Import(in, mode)

StoreCall == Create \/ Refused \/ ChangePin \/ Lock \/ Erase \/ \E c \in copies : Unlock(c)

Next == Edit \/ EditProfile \/ Bulk \/ StoreCall

Spec == Init /\ [][Next]_vars

-----------------------------------------------------------------------------
(***************************************************************************)
(* Properties.                                                             *)
(***************************************************************************)
IsArray(r) ==
    /\ Len(r) <= MaxAccounts
    /\ \A i \in DOMAIN r :
         /\ r[i].id \in 0..IdMod - 1
         /\ IsInput([x \in {"profile", "name", "data", "used"} |-> r[i][x]])
         /\ Acceptable(r[i]) /\ r[i].profile = Canon(r[i].profile)

\* Types: only acceptable records are stored, under canonical profiles, and
\* never more than the array holds (accounts_add, accounts_import).
TypeOK ==
    /\ state \in {"BLANK", "LOCKED", "UNLOCKED"} /\ emptied \in BOOLEAN
    /\ \A r \in {recs, stored} \cup copies : IsArray(r)
    /\ s_profile \in Profiles /\ s_profile = Canon(s_profile)
    /\ hash \in {Hash(p) : p \in Profiles}

\* "A name is unique within its profile", and an identifier denotes one
\* account: in RAM and in every array an unlock may deliver, after any
\* mixture of additions, renamed profiles, imports and failed saves.
KeysUnique ==
    \A r \in {recs} \cup copies : \A i, j \in DOMAIN r :
        i # j => ~SameKey(r[i], r[j]) /\ r[i].id # r[j].id /\ r[i].id # 0

\* While unlocked the array in RAM is the one the store holds: each of the
\* changes undoes itself when its save fails.
RamMatchesStore == state = "UNLOCKED" => emptied \/ recs = stored

\* The active profile is one that some account uses, the default one when
\* there is no account: otherwise the home screen would show none of them.
ActiveUsed ==
    IF recs = <<>> THEN s_profile = Default ELSE Used(recs, s_profile)

\* A named profile that is active is active again after a lock, or a
\* restart, and an unlock (restore_profile), while an account uses it.  The
\* default one may not be: select_profile stores nothing when it is active
\* already, so the hash of an erased store's profile stays.
ProfileKept ==
    state = "UNLOCKED" /\ s_profile # Default =>
        \A r \in {recs, stored} : Used(r, s_profile) => ProfileEq(Restore(r, hash)[1], s_profile)

\* A change that is stored leaves every account it does not remove or rename
\* its identifier, by which the screens know it (accounts_import: "updated
\* ones keep theirs").
IdsKept ==
    [][copies' # copies =>
         \A i \in DOMAIN recs, j \in DOMAIN recs' :
           SameKey(recs[i], recs'[j]) => recs[i].id = recs'[j].id]_vars

\* What an import promises (accounts.h): the last usable record of each key
\* in the backup, and the accounts of the device that are not replaced.
Wanted(b) ==
    {i \in DOMAIN b : Usable(b[i]) /\
        \A j \in i + 1..Len(b) : Usable(b[j]) => ~SameKey(b[i], b[j])}

Holds(r, a) == \E i \in DOMAIN r : SameRecord(r[i], a)

Promised(r, b, mode, new) ==
    LET left == {i \in DOMAIN r : \A j \in Wanted(b) :
                   IF mode = "merge" THEN ~SameKey(b[j], r[i])
                   ELSE ~ProfileEq(b[j].profile, r[i].profile)}
        back == {i \in Wanted(b) : FindKey(r, b[i]) # {}}
        missing == {i \in Wanted(b) : ~Holds(new, b[i])}
    IN /\ \A i \in left : r[i] \in Range(new)
       /\ missing \cap back = {}
       /\ missing # {} => Len(new) = MaxAccounts
       /\ Len(new) = Cardinality(left) + Cardinality(Wanted(b) \ missing)

\* Every import leaves what it promises and nothing else, whatever the order
\* of the records and however full the array is; one that finds nothing to
\* write leaves it too.
ImportPromised ==
    copies = {recs} => \A b \in Backups, mode \in Modes : \A in \in Readings(b) :
        Promised(recs, in, mode, AfterImport(recs, in, mode))

\* The summary says what the import did: so many accounts more, so many
\* gone, so many with another content.
Told(r, b, mode, new) ==
    LET sum == Preview(r, b, mode)
        gone == {i \in DOMAIN r : FindKey(new, r[i]) = {}}
        other == {i \in DOMAIN r \ gone : r[i] \notin Range(new)}
    IN /\ Len(new) = Len(r) + sum.added - sum.removed
       /\ Cardinality(gone) = sum.removed /\ Cardinality(other) = sum.changed
       /\ sum.total = sum.invalid + sum.added + sum.full + sum.changed + sum.unchanged

Distinct(b) == \A i, j \in DOMAIN b : i # j => ~SameKey(b[i], b[j])

\* For every backup without two records of one key, where the array was
\* just saved: the summary tells what the import would do.
SummaryTells ==
    copies = {recs} => \A b \in Backups, mode \in Modes : \A in \in Readings(b) :
        Distinct(in) => Told(recs, in, mode, AfterImport(recs, in, mode))

\* accounts.h: the summary is "what an import does (preview) or did
\* (import)".  The same for every import that succeeds, of a backup put into
\* one profile included.
SummaryAlwaysTells ==
    [][\A b \in Backups, mode \in Modes : \A in \in Readings(b) :
         copies' = {recs'} /\ Import(in, mode) => Told(recs, in, mode, recs')]_vars

\* The active profile after k presses of the profile button.
Reached[k \in Nat] == IF k = 0 THEN s_profile ELSE ProfileAfter(recs, Reached[k - 1])

\* The profile button of the home screen visits every profile once and comes
\* back, whatever the spellings and the order of the records.
AllProfilesReached ==
    state = "UNLOCKED" /\ recs # <<>> =>
        LET used == {Rank(recs[i].profile) : i \in DOMAIN recs}
            n == Cardinality(used)
        IN /\ {Rank(Reached[k]) : k \in 1..n} = used
           /\ ProfileEq(Reached[n], s_profile)

=============================================================================
