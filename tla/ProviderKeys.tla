---------------------------- MODULE ProviderKeys ----------------------------
(***************************************************************************)
(* LLM Providers: the connection of each in SQLite and its API key in the  *)
(* Keychain (internal/product/llm_settings.go,                             *)
(* internal/history/product_llm_settings.go, internal/secret).             *)
(*                                                                         *)
(* No transaction spans the two stores: a call that touches both works     *)
(* step by step and undoes its first half when its second half fails.      *)
(* Calls run concurrently, each statement of SQLite and each access of the *)
(* Keychain is one step, and a crash forgets the calls and nothing else.   *)
(* A Keychain reference is a function of the Provider id, so the Keychain  *)
(* is a function of Providers.                                             *)
(***************************************************************************)
EXTENDS FiniteSets

CONSTANTS
  Providers,   \* Gum Provider UUIDs; bounds the number of Providers ever created
  Calls,       \* application calls that may run at once
  Urls,        \* what the author may enter as a connection
  Keys,        \* API keys the author may enter
  NoKey,       \* an empty key, or no Keychain item
  NoProvider   \* what an idle call works on

ASSUME KeysAssumption == NoKey \notin Keys /\ NoProvider \notin Providers

VARIABLES
  providers,   \* Provider -> its product_llm_provider row
  keychain,    \* Provider -> the key under its reference
  calls,       \* call -> what it is doing
  overlapped,  \* Providers on which two calls were under way at once
  faulty       \* Providers whose call met a crash, a lost answer or a failing undo

vars == <<providers, keychain, calls, overlapped, faulty>>

NoRow == [state |-> "absent"]

Idle == [op |-> "none", at |-> "none", provider |-> NoProvider]

Active(p) == providers[p].state = "active"

UnderWay(p) == {c \in Calls : calls[c].provider = p}
-----------------------------------------------------------------------------
Init ==
  /\ providers = [p \in Providers |-> NoRow]
  /\ keychain = [p \in Providers |-> NoKey]
  /\ calls = [c \in Calls |-> Idle]
  /\ overlapped = {}
  /\ faulty = {}
-----------------------------------------------------------------------------
(* Calls on one Provider.                                                  *)

\* c starts to work on p.
Begins(c, op, at, p, url, key) ==
  /\ calls[c] = Idle
  /\ calls' = [calls EXCEPT ![c] =
       [op |-> op, at |-> at, provider |-> p, url |-> url, key |-> key,
        previous |-> NoKey,
        found |-> [row |-> providers[p], key |-> keychain[p]]]]
  /\ overlapped' = IF UnderWay(p) = {} THEN overlapped ELSE overlapped \cup {p}

Moves(c, at) == calls' = [calls EXCEPT ![c].at = at] /\ UNCHANGED overlapped

Ends(c) == calls' = [calls EXCEPT ![c] = Idle] /\ UNCHANGED overlapped

\* CreateLLMProvider: a fresh id (or one that left no trace), and its key is stored first.
CreateProvider(c) ==
  /\ \E p \in Providers, url \in Urls, key \in Keys :
       /\ providers[p] = NoRow /\ keychain[p] = NoKey /\ UnderWay(p) = {}
       /\ p \notin overlapped \cup faulty
       /\ Begins(c, "create", "persist", p, url, key)
       /\ keychain' = [keychain EXCEPT ![p] = key]
  /\ UNCHANGED <<providers, faulty>>

\* UpdateLLMProvider reads the active Provider; an empty key keeps the stored one.
UpdateProvider(c) ==
  /\ \E p \in Providers, url \in Urls, key \in Keys \cup {NoKey} :
       /\ Active(p)
       /\ Begins(c, "update", IF key = NoKey THEN "persist" ELSE "resolve", p, url, key)
  /\ UNCHANGED <<providers, keychain, faulty>>

\* DeleteLLMProvider, confirmed, reads the active Provider.
DeleteProvider(c) ==
  /\ \E p \in Providers :
       /\ Active(p)
       /\ Begins(c, "delete", "resolve", p, providers[p].url, NoKey)
  /\ UNCHANGED <<providers, keychain, faulty>>

\* The key of this moment is what an undo would put back.
ResolveKey(c) ==
  /\ calls[c].at = "resolve"
  /\ keychain[calls[c].provider] # NoKey
  /\ calls' = [calls EXCEPT ![c].previous = keychain[calls[c].provider],
                            ![c].at = IF calls[c].op = "update" THEN "store" ELSE "remove"]
  /\ UNCHANGED <<providers, keychain, overlapped, faulty>>

\* Rotation under the same reference.
StoreKey(c) ==
  /\ calls[c].at = "store"
  /\ keychain' = [keychain EXCEPT ![calls[c].provider] = calls[c].key]
  /\ Moves(c, "persist")
  /\ UNCHANGED <<providers, faulty>>

RemoveKey(c) ==
  /\ calls[c].at = "remove"
  /\ keychain[calls[c].provider] # NoKey
  /\ keychain' = [keychain EXCEPT ![calls[c].provider] = NoKey]
  /\ Moves(c, "persist")
  /\ UNCHANGED <<providers, faulty>>

\* The Keychain has no such item, or refuses: nothing has been changed yet.
GiveUp(c) ==
  /\ calls[c].at \in {"resolve", "store", "remove"}
  /\ Ends(c)
  /\ UNCHANGED <<providers, keychain, faulty>>

\* CreateLLMProvider of the store
InsertRow(c) ==
  /\ calls[c].op = "create" /\ calls[c].at = "persist"
  /\ providers' = [providers EXCEPT ![calls[c].provider] =
       [state |-> "active", url |-> calls[c].url]]
  /\ Moves(c, "confirm")
  /\ UNCHANGED <<keychain, faulty>>

\* UpdateLLMProvider of the store
UpdateRow(c) ==
  /\ calls[c].op = "update" /\ calls[c].at = "persist"
  /\ Active(calls[c].provider)
  /\ providers' = [providers EXCEPT ![calls[c].provider].url = calls[c].url]
  /\ Moves(c, "confirm")
  /\ UNCHANGED <<keychain, faulty>>

\* DeleteLLMProvider of the store
DeleteRow(c) ==
  /\ calls[c].op = "delete" /\ calls[c].at = "persist"
  /\ Active(calls[c].provider)
  /\ providers' = [providers EXCEPT ![calls[c].provider].state = "deleted"]
  /\ Ends(c)
  /\ UNCHANGED <<keychain, faulty>>

\* Seeded faults: what a creation, an update or a deletion did to the Keychain is not undone.
NeedsUndoOfPrevious(c) == calls[c].previous # NoKey
NeedsUndoUnlessUpdate(c) == calls[c].op # "update"
NeedsUndoUnlessDelete(c) == calls[c].op # "delete" /\ calls[c].previous # NoKey

\* A failed call has something in the Keychain to undo.
NeedsUndo(c) == calls[c].op # "update" \/ calls[c].previous # NoKey

Fails(c) == IF NeedsUndo(c) THEN Moves(c, "undo") ELSE Ends(c)

\* The row is gone, or the statement is refused: nothing was written.
PersistFails(c) ==
  /\ calls[c].at = "persist"
  /\ Fails(c)
  /\ UNCHANGED <<providers, keychain, faulty>>

\* The row is read back, which closes the call.
Confirm(c) ==
  /\ calls[c].at = "confirm"
  /\ IF Active(calls[c].provider) THEN Ends(c) ELSE Fails(c)
  /\ UNCHANGED <<providers, keychain, faulty>>

\* The row was written and cannot be read back: the call takes its write for failed.
ConfirmIsLost(c) ==
  /\ calls[c].at = "confirm"
  /\ Fails(c)
  /\ faulty' = faulty \cup {calls[c].provider}
  /\ UNCHANGED <<providers, keychain>>

\* The key of a Provider that was not created is deleted; a rotated or removed key is put
\* back (restoreProviderAPIKey).
Undo(c) ==
  /\ calls[c].at = "undo"
  /\ keychain' = [keychain EXCEPT ![calls[c].provider] = calls[c].previous]
  /\ Ends(c)
  /\ UNCHANGED <<providers, faulty>>

UndoFails(c) ==
  /\ calls[c].at = "undo"
  /\ Ends(c)
  /\ faulty' = faulty \cup {calls[c].provider}
  /\ UNCHANGED <<providers, keychain>>

\* The application exits or crashes with its calls under way.
Crash ==
  /\ \E c \in Calls : calls[c] # Idle
  /\ faulty' = faulty \cup {p \in Providers : UnderWay(p) # {}}
  /\ calls' = [c \in Calls |-> Idle]
  /\ UNCHANGED <<providers, keychain, overlapped>>

\* A step of the call c.
Works(c) ==
  \/ CreateProvider(c) \/ UpdateProvider(c) \/ DeleteProvider(c)
  \/ ResolveKey(c) \/ StoreKey(c) \/ RemoveKey(c) \/ GiveUp(c)
  \/ InsertRow(c) \/ UpdateRow(c) \/ DeleteRow(c) \/ PersistFails(c)
  \/ Confirm(c) \/ ConfirmIsLost(c) \/ Undo(c) \/ UndoFails(c)

Next == Crash \/ \E c \in Calls : Works(c)

Spec == Init /\ [][Next]_vars
-----------------------------------------------------------------------------
(* Properties.                                                             *)

ProviderRows == {NoRow} \cup [state : {"active", "deleted"}, url : Urls]

Findings == [row : ProviderRows, key : Keys \cup {NoKey}]

\* What a call remembers at each of its steps.
CallRecords ==
  {Idle} \cup
  [op : {"create"}, at : {"persist", "confirm", "undo"}, provider : Providers, url : Urls,
   key : Keys, previous : {NoKey}, found : Findings] \cup
  [op : {"update"}, at : {"resolve"}, provider : Providers, url : Urls,
   key : Keys, previous : {NoKey}, found : Findings] \cup
  [op : {"delete"}, at : {"resolve"}, provider : Providers, url : Urls,
   key : {NoKey}, previous : {NoKey}, found : Findings] \cup
  [op : {"update"}, at : {"persist", "confirm"}, provider : Providers, url : Urls,
   key : {NoKey}, previous : {NoKey}, found : Findings] \cup
  [op : {"update"}, at : {"store", "persist", "confirm", "undo"}, provider : Providers,
   url : Urls, key : Keys, previous : Keys, found : Findings] \cup
  [op : {"delete"}, at : {"remove", "persist", "undo"}, provider : Providers, url : Urls,
   key : {NoKey}, previous : Keys, found : Findings]

\* The rows, the Keychain and what each call has in hand at each of its steps; a call that
\* goes on to change a key always holds the one it would put back.
TypeOK ==
  /\ providers \in [Providers -> ProviderRows]
  /\ keychain \in [Providers -> Keys \cup {NoKey}]
  /\ calls \in [Calls -> CallRecords]
  /\ overlapped \subseteq Providers
  /\ faulty \subseteq Providers

Undisturbed(p) == UnderWay(p) = {} /\ p \notin overlapped \cup faulty

\* Two stores, one truth: when no call is under way, the Keychain holds a key for exactly the
\* Providers that are active, however many writes were refused on the way (README:106).
\* Calls that overlapped, a crash and a failing undo are excepted.
KeysFollowProviders ==
  \A p \in Providers : Undisturbed(p) => (keychain[p] # NoKey <=> Active(p))

\* Overlapping calls may leave a key too many, never one too few: an active Provider has its
\* key whenever no call works on it.
ActiveProvidersHaveTheirKey ==
  \A p \in Providers :
    (Active(p) /\ UnderWay(p) = {} /\ p \notin faulty) => keychain[p] # NoKey

\* A call that fails leaves the connection and the key of its Provider as it found them.
FailedCallChangesNothing ==
  [][\A c \in Calls : \A p \in Providers :
       ( /\ calls[c].provider = p /\ calls[c].at \notin {"none", "confirm"}
         /\ calls'[c] = Idle /\ ~(Active(p) /\ ~Active(p)')
         /\ p \notin overlapped \cup faulty' )
       => /\ keychain'[p] = calls[c].found.key
          /\ Active(p)' <=> calls[c].found.row.state = "active"
          /\ Active(p)' => providers'[p].url = calls[c].found.row.url]_vars

\* A deleted Provider leaves no credential behind.  An update that overlaps the deletion
\* stores its key, or restores the old one, after the deletion removed it.
DeletedProviderHasNoKey ==
  \A p \in Providers :
    (providers[p].state = "deleted" /\ UnderWay(p) = {} /\ p \notin faulty)
    => keychain[p] = NoKey
=============================================================================
