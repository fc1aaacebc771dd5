------------------------------ MODULE Storage ------------------------------
(***************************************************************************)
(* The user table of storage.c and its file.  Every registration writes    *)
(* the whole file anew, in place: between fopen("wb") and fclose() what is *)
(* on the disk can be any part of it, which storage_load() refuses.  A     *)
(* save can fail at the opening of the file or in the middle of it, and    *)
(* the user is told that he is registered all the same.                    *)
(***************************************************************************)
EXTENDS Naturals, FiniteSets

CONSTANTS Users, MAX_USERS

ASSUME StorageAssumption == MAX_USERS \in Nat /\ IsFiniteSet(Users)

VARIABLES users,      \* the table in memory
          usersFile,  \* what storage_load() would read
    unsaved     \* history: the users whom saves that failed may cost their account

storageVars == <<users, usersFile, unsaved>>

Whole(known) == [whole |-> TRUE, known |-> known]
Torn == [whole |-> FALSE, known |-> {}]

StorageInit(known) == users = known /\ usersFile = Whole(known) /\ unsaved = {}

\* storage_verify_user(), passwords left aside.
Verified(u) == u \in users

\* storage_register_user() up to storage_save() ...
RegisterUser(u) ==
    /\ u \notin users /\ Cardinality(users) < MAX_USERS
    /\ users' = users \cup {u}

\* ... whose fopen("wb") empties the file, ...
SaveOpens == usersFile' = Torn /\ UNCHANGED unsaved

\* ... or fails, as the making of the directory may: the file stays behind.
SaveRefused(u) == unsaved' = unsaved \cup {u} /\ UNCHANGED usersFile

\* Mutant of SaveDone: the newest user is not written.
SaveStale ==
    /\ \E u \in users : usersFile' = Whole(users \ {u})
    /\ unsaved' = {} /\ UNCHANGED users

\* The rest of storage_save(), ...
SaveDone == usersFile' = Whole(users) /\ unsaved' = {} /\ UNCHANGED users

\* ... which a write that fails leaves with a part of the file.
SaveBreaks == unsaved' = users /\ UNCHANGED <<users, usersFile>>

\* storage_init() of the next process, which does not look at the result of
\* storage_load(): a file that cannot be opened or read is an empty table.
StorageLoad ==
    /\ users' \in {usersFile.known, {}}
    /\ unsaved' = {} /\ UNCHANGED usersFile

=============================================================================
