----------------------------- MODULE Win32Table -----------------------------
(***************************************************************************)
(* The descriptor table of os_win32.c, which gives handles and sockets     *)
(* small numbers.  A table is a function from entries to records of a      *)
(* type, the handle fid and the instance, "file instance (won't match      *)
(* after a close)"; handles are positive and those below OpenMax double as *)
(* the wanted entry.                                                       *)
(***************************************************************************)
EXTENDS Integers, FiniteSetsExt

CONSTANT OpenMax    \* WIN32_OPEN_MAX

ASSUME TableAssumption == OpenMax \in Nat \ {0, 1}

Entries == 0..(OpenMax - 1)
FileTypes == {"unused", "pipeSync", "pipeAsync", "socketSync", "socketAsync"}

EmptyTable == [i \in Entries |-> [type |-> "unused", fid |-> 0, instance |-> 0]]
InUse(t) == {i \in Entries : t[i].type # "unused"}

\* Mutant of EntryFor: the entry of a small handle is taken to be its own.
EntryForOwn(t, fid, desired) ==
  IF desired \in Entries
  THEN IF desired \in InUse(t) THEN -1 ELSE desired
  ELSE IF fid \in Entries THEN fid
       ELSE IF 1..(OpenMax - 1) \subseteq InUse(t) THEN -1
            ELSE Min((1..(OpenMax - 1)) \ InUse(t))

\* The entry a new handle gets, or -1.
EntryFor(t, fid, desired) ==
  IF desired \in Entries
  THEN IF desired \in InUse(t) THEN -1 ELSE desired
  ELSE IF fid \in Entries \ InUse(t) THEN fid
       ELSE IF 1..(OpenMax - 1) \subseteq InUse(t) THEN -1
            ELSE Min((1..(OpenMax - 1)) \ InUse(t))

\* The instance is the one thing that neither of these changes.
Win32NewDescriptor(t, type, fid, desired) ==
  LET i == EntryFor(t, fid, desired)
  IN  [j \in Entries |-> IF j = i THEN [t[j] EXCEPT !.type = type, !.fid = fid]
                                  ELSE t[j]]

Win32FreeDescriptor(t, i) == [t EXCEPT ![i].type = "unused"]
=============================================================================
