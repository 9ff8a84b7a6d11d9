------------------------------ MODULE LuaStore ------------------------------
(***************************************************************************)
(* engine.store (src/scripting/bindings_store.cpp): at most MaxKeys        *)
(* entries in memory, and what is kept of them when the program ends.  On  *)
(* the desktop that is a file, written anew at every change; on the web    *)
(* and on the device one blob for each namespace, written whole at a       *)
(* flush.  Programs end between any two calls, and on the desktop in the   *)
(* middle of a save; a host may refuse a save, and a full disk cut it.     *)
(***************************************************************************)
EXTENDS Integers, SequencesExt

CONSTANTS
    Hosts,          \* the builds: "desktop", "blob" for the web and the device
    Owners,         \* namespaces on a blob host, paths on the desktop
    NoScope,        \* no namespace, no path
    Keys, Values,
    ReadBack(_),    \* what the text of a value is read as: numbers have six digits,
                    \*   which are read back as they are
    Partial,        \* what a table with too many entries leaves
    Garbled,        \* a value whose text was cut
    Unreadable,     \* values whose text the loader refuses: inf and nan
    Size(_), BufferMax,  \* the text of a value; STORE_BUFFER_MAX of a blob host
    MaxKeys,        \* STORE_MAX_KEYS
    Faults          \* "refused" if a host may refuse a save (the file does not
                    \*   open, the flash fails), "cut" if it may cut one short

ASSUME StoreConstants ==
    /\ Hosts \subseteq {"desktop", "blob"}
    /\ Faults \subseteq {"refused", "cut"}
    /\ NoScope \notin Owners /\ Partial \notin Values /\ Unreadable \subseteq Values
    /\ MaxKeys \in Nat \ {0}
ASSUME ReadBackAssumption ==
    /\ \A v \in Values \cup {Partial} : ReadBack(ReadBack(v)) = ReadBack(v)
    /\ ReadBack(Garbled) = Garbled

Scopes == Owners \cup {NoScope}
NoSave == [text |-> <<>>, there |-> FALSE]

VARIABLES
    host,
    entries,        \* m_entries up to m_count: keys, values and, on a blob
                    \*   host, who saved each
    scope,          \* m_storePath on the desktop, the namespace on a blob host
    saved,          \* the file or the blob of each scope
    touched,        \* the keys that were saved or deleted since the last load
    cutting         \* the disk of the desktop is full, or the program about to
                    \*   end inside a save

storeVars == <<host, entries, scope, saved, touched, cutting>>

-----------------------------------------------------------------------------
KeysOf(s) == {s[i].key : i \in DOMAIN s}

Put(s, k, v) ==
    LET entry == [key |-> k, value |-> v, by |-> IF host = "blob" THEN scope ELSE NoScope] IN
    IF k \in KeysOf(s) THEN [i \in DOMAIN s |-> IF s[i].key = k THEN entry ELSE s[i]]
    ELSE Append(s, entry)

(* remove: the entries after the one that findIndex finds move down.       *)
Without(s, k) ==
    IF k \in KeysOf(s) THEN RemoveAt(s, CHOOSE i \in DOMAIN s : s[i].key = k) ELSE s

Text(s) == [i \in DOMAIN s |-> [s[i] EXCEPT !.value = ReadBack(@)]]

(* The loader stops at the first value it cannot read.                     *)
Loaded(t) == LET bad == {i \in DOMAIN t : t[i].value \in Unreadable} IN
             IF bad = {} THEN t ELSE SubSeq(t, 1, (CHOOSE i \in bad : \A j \in bad : i <= j) - 1)

(* A save that does not fit the buffer fails and writes nothing.           *)
Fits(s) == host = "desktop" \/ FoldSeq(LAMBDA e, n : n + Size(e.value), 0, s) < BufferMax

Writable == host = "blob" \/ scope # NoScope

(* What a desktop save that is cut short leaves: some of the entries, and  *)
(* perhaps one whose value was cut.                                        *)
Torn(t) ==
    {SubSeq(t, 1, n) : n \in 0 .. Len(t)}
    \cup {Append(SubSeq(t, 1, n - 1), [t[n] EXCEPT !.value = Garbled]) : n \in DOMAIN t}

KeepText(t) == saved' = [saved EXCEPT ![scope] = [text |-> t, there |-> TRUE]]

(* (Slip: what fits of it is written.)                                     *)
WriteCut(s) ==
    \/ Writable /\ s # <<>> /\ ~cutting /\ KeepText(Text(IF Fits(s) THEN s ELSE Front(s)))
    \/ host = "desktop" /\ Writable /\ cutting /\ \E t \in Torn(Text(s)) : KeepText(t)
    \/ (~Writable \/ s = <<>> \/ "refused" \in Faults) /\ UNCHANGED saved

(* saveToFile writes the whole store or nothing; on the desktop it empties *)
(* the file first, and when it is cut short the file holds a part.         *)
Write(s) ==
    \/ Writable /\ Fits(s) /\ ~cutting /\ KeepText(Text(s))
    \/ host = "desktop" /\ Writable /\ cutting /\ \E t \in Torn(Text(s)) : KeepText(t)
    \/ (~Writable \/ ~Fits(s) \/ "refused" \in Faults) /\ UNCHANGED saved

(* Every change is saved at once on the desktop, if there is a path.       *)
AutoSave(s) == IF host = "desktop" THEN Write(s) ELSE UNCHANGED saved

StoreInit ==
    /\ host \in Hosts
    /\ entries = <<>>
    /\ scope = NoScope
    /\ saved = [s \in Scopes |-> NoSave]
    /\ touched = {}
    /\ cutting = FALSE

-----------------------------------------------------------------------------
(* engine.store.save: a full store refuses a new key.                      *)
Room(k) == k \in KeysOf(entries) \/ Len(entries) < MaxKeys

Save(k, v) ==
    /\ Room(k)
    /\ entries' = Put(entries, k, v)
    /\ touched' = touched \cup {k}
    /\ AutoSave(Put(entries, k, v))
    /\ UNCHANGED <<host, scope, cutting>>

(* A table with too many entries is refused after its slot was taken.      *)
SaveLargeTable(k) ==
    /\ Room(k)
    /\ entries' = Put(entries, k, Partial)
    /\ touched' = touched \cup {k}
    /\ UNCHANGED <<host, scope, saved, cutting>>

Delete(k) ==
    /\ k \in KeysOf(entries)
    /\ entries' = Without(entries, k)
    /\ touched' = touched \cup {k}
    /\ AutoSave(Without(entries, k))
    /\ UNCHANGED <<host, scope, cutting>>

Clear ==
    /\ entries' = <<>>
    /\ touched' = Keys
    /\ AutoSave(<<>>)
    /\ UNCHANGED <<host, scope, cutting>>

Flush ==
    /\ Write(entries)
    /\ UNCHANGED <<host, entries, scope, touched, cutting>>

(* loadFromFile, which does nothing if there is nothing to load.           *)
Load(s, before, tags) ==
    IF saved[s].there THEN entries' = Loaded(saved[s].text) /\ touched' = {}
    ELSE entries' = before /\ touched' = tags

(* engine.store.path and setStorePath: a blob host loads its own again.    *)
Path(p) ==
    /\ IF host = "desktop" THEN scope' = p /\ Load(p, entries, touched)
       ELSE scope' = scope /\ Load(scope, entries, touched)
    /\ UNCHANGED <<host, saved, cutting>>

DropPath ==
    /\ host = "desktop"
    /\ scope' = NoScope
    /\ UNCHANGED <<host, entries, saved, touched, cutting>>

(* (Slip: the entries stay if the next owner has saved nothing.)           *)
NamespaceKeepsEntries(ns) ==
    /\ IF host = "blob" /\ ns # NoScope THEN scope' = ns /\ Load(ns, entries, {})
       ELSE scope' = (IF host = "blob" THEN ns ELSE NoScope) /\ entries' = <<>> /\ touched' = {}
    /\ UNCHANGED <<host, saved, cutting>>

(* setStoreNamespace: the store is emptied, and the next owner's loaded.   *)
SetNamespace(ns) ==
    /\ IF host = "blob" /\ ns # NoScope THEN scope' = ns /\ Load(ns, <<>>, {})
       ELSE scope' = (IF host = "blob" THEN ns ELSE NoScope) /\ entries' = <<>> /\ touched' = {}
    /\ UNCHANGED <<host, saved, cutting>>

(* The program ends, between two calls or in the save of one that was cut, *)
(* and starts again.                                                       *)
Restart ==
    /\ entries' = <<>> /\ scope' = NoScope /\ touched' = {}
    /\ UNCHANGED <<host, saved, cutting>>

(* The disk of the desktop runs full, or is freed; a program that ends     *)
(* inside a save leaves the same, and restarts with the disk as it was.    *)
Trouble ==
    /\ host = "desktop" /\ "cut" \in Faults
    /\ cutting' = ~cutting
    /\ UNCHANGED <<host, entries, scope, saved, touched>>

StoreNext ==
    \/ \E k \in Keys : SaveLargeTable(k) \/ Delete(k) \/ \E v \in Values : Save(k, v)
    \/ Clear \/ Flush \/ DropPath \/ Restart \/ Trouble
    \/ \E s \in Scopes : SetNamespace(s) \/ (s # NoScope /\ Path(s))

StoreSpec == StoreInit /\ [][StoreNext]_storeVars

-----------------------------------------------------------------------------
(* On the web and on the device the store of an owner never holds, in      *)
(* memory or in its blob, what another one saved (scripting/bindings.hpp   *)
(* :804-817).                                                              *)
OwnersApart ==
    host = "blob" =>
        /\ \A i \in DOMAIN entries : entries[i].by = scope
        /\ \A s \in Scopes : \A i \in DOMAIN saved[s].text : saved[s].text[i].by = s

(* A value that is kept goes only by a call of its owner for its key after *)
(* what was kept had been loaded, through restarts, changes of owner, full *)
(* stores and saves that fail; a desktop save that the end of the program  *)
(* or a full disk cuts short may lose from the file it was saving, and the *)
(* next save that is not brings back what is in memory.  A value whose     *)
(* text was cut is not kept.  The unscoped blob, which only path loads, is *)
(* left out.                                                               *)
Kept(s, k) ==
    {saved[s].text[i].value : i \in {j \in DOMAIN saved[s].text : saved[s].text[j].key = k}}
        \ {Garbled}

NothingForgotten ==
    [][\A s \in Owners : saved'[s] # saved[s] =>
        \A k \in Keys : ~(Kept(s, k) \subseteq Kept(s, k)')
            => s = scope /\ (cutting \/ k \in touched \cup touched')]_storeVars

=============================================================================
