------------------------- MODULE ProviderKeysProofs -------------------------
(***************************************************************************)
(* Proofs about ProviderKeys for any number of Providers, calls,           *)
(* connections and keys.                                                   *)
(***************************************************************************)
EXTENDS ProviderKeys, TLAPS

WorksOn(c, p) == calls[c].provider = p

\* The id of a creation whose row is not inserted is nobody else's, and its key is stored.
CreationIsAlone(p) ==
  \A c \in Calls :
    (WorksOn(c, p) /\ calls[c].op = "create" /\ calls[c].at = "persist") =>
      /\ providers[p] = NoRow
      /\ keychain[p] # NoKey
      /\ \A d \in Calls : WorksOn(d, p) => d = c

\* A creation deletes its key only when its Provider is not active.
UndoneCreationIsGone(p) ==
  \A c \in Calls :
    (WorksOn(c, p) /\ calls[c].op = "create" /\ calls[c].at = "undo" /\ p \notin faulty)
    => ~Active(p)

\* An active Provider without a key is being deleted, by a call that holds the key.
MissingKeyIsHeld(p) ==
  (Active(p) /\ keychain[p] = NoKey /\ p \notin faulty) =>
    \E c \in Calls :
      WorksOn(c, p) /\ calls[c].op = "delete" /\ calls[c].at \in {"persist", "undo"}

\* What the only call c on p has done so far, relative to what it found.
Same(c, p) == keychain[p] = calls[c].found.key /\ providers[p] = calls[c].found.row
Taken(c, p) == calls[c].previous = calls[c].found.key /\ providers[p] = calls[c].found.row

Progress(c, p) ==
  /\ calls[c].op = "create" =>
       /\ calls[c].found.row = NoRow /\ calls[c].found.key = NoKey
       /\ keychain[p] # NoKey
       /\ calls[c].at # "confirm" => providers[p] = NoRow
       /\ calls[c].at = "confirm" => Active(p)
  /\ calls[c].op # "create" => calls[c].found.row.state = "active" /\ calls[c].found.key # NoKey
  /\ calls[c].op = "update" =>
       /\ Active(p) /\ keychain[p] # NoKey
       /\ calls[c].at \in {"persist", "undo"} =>
            IF calls[c].previous = NoKey THEN Same(c, p) ELSE Taken(c, p)
  /\ calls[c].op = "delete" /\ calls[c].at \in {"persist", "undo"} =>
       keychain[p] = NoKey /\ Taken(c, p)
  /\ calls[c].at = "resolve" => Same(c, p)
  /\ calls[c].at \in {"store", "remove"} => Same(c, p) /\ Taken(c, p)

\* On a Provider that met no disturbance one call works at a time, and between calls the
\* two stores agree.
OneAtATime(p) ==
  p \notin overlapped \cup faulty =>
    /\ \A c, d \in Calls : WorksOn(c, p) /\ WorksOn(d, p) => c = d
    /\ (\A c \in Calls : ~WorksOn(c, p)) => (keychain[p] # NoKey <=> Active(p))
    /\ \A c \in Calls : WorksOn(c, p) => Progress(c, p)

ProviderInv(p) ==
  CreationIsAlone(p) /\ UndoneCreationIsGone(p) /\ MissingKeyIsHeld(p) /\ OneAtATime(p)

IInv == TypeOK /\ \A p \in Providers : ProviderInv(p)
-----------------------------------------------------------------------------
(* Types.                                                                  *)

\* The fields of a call that is under way.
LEMMA CallFields ==
  ASSUME TypeOK, NEW c \in Calls, calls[c] # Idle
  PROVE  /\ calls[c].op \in {"create", "update", "delete"}
         /\ calls[c].provider \in Providers
         /\ calls[c].url \in Urls
         /\ calls[c].key \in Keys \cup {NoKey}
         /\ calls[c].previous \in Keys \cup {NoKey}
         /\ calls[c].found \in Findings
  BY DEF TypeOK, CallRecords

\* What the step of a call says of its op, its key and its previous key.
LEMMA CallSteps ==
  ASSUME TypeOK, NEW c \in Calls, calls[c] # Idle
  PROVE  /\ calls[c].at \in {"resolve", "store", "remove", "persist", "confirm", "undo"}
         /\ calls[c].at = "resolve" => calls[c].op \in {"update", "delete"} /\ calls[c].previous = NoKey
         /\ calls[c].at = "store" =>
              calls[c].op = "update" /\ calls[c].key \in Keys /\ calls[c].previous \in Keys
         /\ calls[c].at = "remove" => calls[c].op = "delete" /\ calls[c].previous \in Keys
         /\ calls[c].at = "confirm" => calls[c].op \in {"create", "update"}
         /\ calls[c].op = "create" =>
              calls[c].at \in {"persist", "confirm", "undo"} /\ calls[c].previous = NoKey
         /\ calls[c].op = "update" => calls[c].at # "remove"
         /\ calls[c].op = "delete" => calls[c].at \notin {"store", "confirm"}
         /\ calls[c].op = "delete" /\ calls[c].at \in {"persist", "undo"} => calls[c].previous \in Keys
         /\ calls[c].op = "update" /\ calls[c].at = "undo" => calls[c].previous \in Keys
  BY DEF TypeOK, CallRecords

LEMMA IdleFields ==
  /\ Idle.op = "none" /\ Idle.at = "none" /\ Idle.provider = NoProvider
  /\ NoProvider \notin Providers
  BY KeysAssumption DEF Idle

\* A call that has a step to make is not idle.
LEMMA Busy ==
  ASSUME NEW c \in Calls, calls[c].at # "none"
  PROVE  calls[c] # Idle
  BY IdleFields

\* A call under way moves on to a step its op has.
LEMMA MovesType ==
  ASSUME TypeOK, NEW c \in Calls, NEW at, calls[c] # Idle,
         \/ calls[c].at \in {"store", "remove"} /\ at = "persist"
         \/ calls[c].at = "persist" /\ calls[c].op \in {"create", "update"} /\ at = "confirm"
         \/ calls[c].at \in {"persist", "confirm"} /\ at = "undo"
             /\ (calls[c].op # "update" \/ calls[c].previous # NoKey)
  PROVE  [calls EXCEPT ![c].at = at] \in [Calls -> CallRecords]
<1>1. calls[c] \in CallRecords
  BY DEF TypeOK
<1>2. [calls[c] EXCEPT !.at = at] \in CallRecords
  BY <1>1 DEF CallRecords
<1>3. QED
  BY <1>2 DEF TypeOK

LEMMA EndsType ==
  ASSUME TypeOK, NEW c \in Calls
  PROVE  [calls EXCEPT ![c] = Idle] \in [Calls -> CallRecords]
  BY DEF TypeOK, CallRecords

LEMMA TypeStep ==
  ASSUME TypeOK, [Next]_vars
  PROVE  TypeOK'
<1>1. CASE UNCHANGED vars
  BY <1>1 DEF TypeOK, vars
<1>2. CASE Crash
  <2>1. calls' \in [Calls -> CallRecords]
    BY <1>2 DEF Crash, CallRecords
  <2>2. QED
    BY <1>2, <2>1 DEF Crash, TypeOK
<1>3. ASSUME NEW c \in Calls, Works(c)
      PROVE  TypeOK'
  <2>1. CASE CreateProvider(c)
    <3>1. PICK p \in Providers, url \in Urls, key \in Keys :
            /\ providers[p] = NoRow /\ keychain[p] = NoKey
            /\ Begins(c, "create", "persist", p, url, key)
            /\ keychain' = [keychain EXCEPT ![p] = key]
      BY <2>1 DEF CreateProvider
    <3>2. [op |-> "create", at |-> "persist", provider |-> p, url |-> url, key |-> key,
           previous |-> NoKey, found |-> [row |-> providers[p], key |-> keychain[p]]]
          \in CallRecords
      BY DEF TypeOK, CallRecords, Findings
    <3>3. calls' \in [Calls -> CallRecords]
      BY <3>1, <3>2 DEF Begins, TypeOK
    <3>4. overlapped' \subseteq Providers
      BY <3>1 DEF Begins, TypeOK
    <3>5. QED
      BY <2>1, <3>1, <3>3, <3>4 DEF CreateProvider, TypeOK
  <2>2. CASE UpdateProvider(c)
    <3>1. PICK p \in Providers, url \in Urls, key \in Keys \cup {NoKey} :
            Begins(c, "update", IF key = NoKey THEN "persist" ELSE "resolve", p, url, key)
      BY <2>2 DEF UpdateProvider
    <3>2. [op |-> "update", at |-> IF key = NoKey THEN "persist" ELSE "resolve", provider |-> p,
           url |-> url, key |-> key, previous |-> NoKey,
           found |-> [row |-> providers[p], key |-> keychain[p]]]
          \in CallRecords
      <4>1. [row |-> providers[p], key |-> keychain[p]] \in Findings
        BY DEF TypeOK, Findings
      <4>2. QED
        BY <4>1 DEF CallRecords
    <3>3. calls' \in [Calls -> CallRecords]
      BY <3>1, <3>2 DEF Begins, TypeOK
    <3>4. overlapped' \subseteq Providers
      BY <3>1 DEF Begins, TypeOK
    <3>5. QED
      BY <2>2, <3>1, <3>3, <3>4 DEF UpdateProvider, TypeOK
  <2>3. CASE DeleteProvider(c)
    <3>1. PICK p \in Providers :
            Active(p) /\ Begins(c, "delete", "resolve", p, providers[p].url, NoKey)
      BY <2>3 DEF DeleteProvider
    <3>2. providers[p].url \in Urls
      BY <3>1 DEF Active, TypeOK, ProviderRows, NoRow
    <3>3. [op |-> "delete", at |-> "resolve", provider |-> p, url |-> providers[p].url,
           key |-> NoKey, previous |-> NoKey,
           found |-> [row |-> providers[p], key |-> keychain[p]]]
          \in CallRecords
      <4>1. [row |-> providers[p], key |-> keychain[p]] \in Findings
        BY DEF TypeOK, Findings
      <4>2. QED
        BY <3>2, <4>1 DEF CallRecords
    <3>4. calls' \in [Calls -> CallRecords]
      BY <3>1, <3>3 DEF Begins, TypeOK
    <3>5. overlapped' \subseteq Providers
      BY <3>1 DEF Begins, TypeOK
    <3>6. QED
      BY <2>3, <3>1, <3>4, <3>5 DEF DeleteProvider, TypeOK
  <2>4. CASE ResolveKey(c)
    <3> DEFINE k == keychain[calls[c].provider]
               at == IF calls[c].op = "update" THEN "store" ELSE "remove"
               taken == [calls[c] EXCEPT !.previous = k]
    <3>1. calls[c] # Idle /\ calls[c].at = "resolve"
      BY <2>4, Busy DEF ResolveKey
    <3>2. k \in Keys
      BY <2>4, <3>1, CallFields DEF ResolveKey, TypeOK
    <3>3. calls' = [calls EXCEPT ![c] = [taken EXCEPT !.at = at]]
      BY <2>4 DEF ResolveKey, TypeOK
    <3>4. ASSUME calls[c].op = "update"
          PROVE  [taken EXCEPT !.at = "store"] \in CallRecords
      <4>1. calls[c] \in [op : {"update"}, at : {"resolve"}, provider : Providers, url : Urls,
                          key : Keys, previous : {NoKey}, found : Findings]
        BY <3>1, <3>4 DEF TypeOK, CallRecords
      <4>2. taken \in [op : {"update"}, at : {"resolve"}, provider : Providers, url : Urls,
                       key : Keys, previous : Keys, found : Findings]
        BY <3>2, <4>1
      <4> HIDE DEF taken
      <4>3. QED
        BY <4>2 DEF CallRecords
    <3>5. ASSUME calls[c].op = "delete"
          PROVE  [taken EXCEPT !.at = "remove"] \in CallRecords
      <4>1. calls[c] \in [op : {"delete"}, at : {"resolve"}, provider : Providers, url : Urls,
                          key : {NoKey}, previous : {NoKey}, found : Findings]
        BY <3>1, <3>5 DEF TypeOK, CallRecords
      <4>2. taken \in [op : {"delete"}, at : {"resolve"}, provider : Providers, url : Urls,
                       key : {NoKey}, previous : Keys, found : Findings]
        BY <3>2, <4>1
      <4> HIDE DEF taken
      <4>3. QED
        BY <4>2 DEF CallRecords
    <3>6. calls[c].op \in {"update", "delete"}
      BY <3>1, CallSteps
    <3>7. [taken EXCEPT !.at = at] \in CallRecords
      <4> HIDE DEF taken
      <4>1. QED
        BY <3>4, <3>5, <3>6
    <3>8. calls' \in [Calls -> CallRecords]
      <4> HIDE DEF taken, at
      <4>1. QED
        BY <3>3, <3>7 DEF TypeOK
    <3>9. QED
      BY <2>4, <3>8 DEF ResolveKey, TypeOK
  <2>5. CASE StoreKey(c)
    <3>1. calls[c] # Idle
      BY <2>5, Busy DEF StoreKey
    <3>2. calls[c].key \in Keys /\ calls[c].provider \in Providers
      BY <2>5, <3>1, CallSteps, CallFields DEF StoreKey
    <3>3. calls' \in [Calls -> CallRecords]
      BY <2>5, <3>1, MovesType DEF StoreKey, Moves
    <3>4. QED
      BY <2>5, <3>2, <3>3 DEF StoreKey, Moves, TypeOK
  <2>6. CASE RemoveKey(c)
    <3>1. calls[c] # Idle
      BY <2>6, Busy DEF RemoveKey
    <3>2. calls' \in [Calls -> CallRecords]
      BY <2>6, <3>1, MovesType DEF RemoveKey, Moves
    <3>3. QED
      BY <2>6, <3>2 DEF RemoveKey, Moves, TypeOK
  <2>7. CASE GiveUp(c)
    BY <2>7, EndsType DEF GiveUp, Ends, TypeOK
  <2>8. CASE InsertRow(c)
    <3>1. calls[c] # Idle
      BY <2>8, Busy DEF InsertRow
    <3>2. calls' \in [Calls -> CallRecords]
      BY <2>8, <3>1, MovesType DEF InsertRow, Moves
    <3>3. [state |-> "active", url |-> calls[c].url] \in ProviderRows
      BY <3>1, CallFields DEF ProviderRows
    <3>4. QED
      BY <2>8, <3>2, <3>3 DEF InsertRow, Moves, TypeOK
  <2>9. CASE UpdateRow(c)
    <3> DEFINE p == calls[c].provider
    <3>1. calls[c] # Idle
      BY <2>9, Busy DEF UpdateRow
    <3>2. calls' \in [Calls -> CallRecords]
      BY <2>9, <3>1, MovesType DEF UpdateRow, Moves
    <3>3. p \in Providers /\ calls[c].url \in Urls
      BY <3>1, CallFields
    <3>4. [providers[p] EXCEPT !.url = calls[c].url] \in ProviderRows
      BY <2>9, <3>3 DEF UpdateRow, Active, TypeOK, ProviderRows, NoRow
    <3>5. providers' \in [Providers -> ProviderRows]
      BY <2>9, <3>4 DEF UpdateRow, TypeOK
    <3>6. QED
      BY <2>9, <3>2, <3>5 DEF UpdateRow, Moves, TypeOK
  <2>10. CASE DeleteRow(c)
    <3> DEFINE p == calls[c].provider
    <3>1. calls[c] # Idle
      BY <2>10, Busy DEF DeleteRow
    <3>2. calls' \in [Calls -> CallRecords]
      BY <2>10, EndsType DEF DeleteRow, Ends
    <3>3. p \in Providers
      BY <3>1, CallFields
    <3>4. [providers[p] EXCEPT !.state = "deleted"] \in ProviderRows
      BY <2>10, <3>3 DEF DeleteRow, Active, TypeOK, ProviderRows, NoRow
    <3>5. providers' \in [Providers -> ProviderRows]
      BY <2>10, <3>4 DEF DeleteRow, TypeOK
    <3>6. QED
      BY <2>10, <3>2, <3>5 DEF DeleteRow, Ends, TypeOK
  <2>11. ASSUME calls[c].at \in {"persist", "confirm"}, Fails(c)
         PROVE  calls' \in [Calls -> CallRecords] /\ overlapped' = overlapped
    BY <2>11, Busy, MovesType, EndsType DEF Fails, NeedsUndo, Moves, Ends
  <2>12. CASE PersistFails(c)
    BY <2>12, <2>11 DEF PersistFails, TypeOK
  <2>13. CASE Confirm(c)
    <3>1. calls' \in [Calls -> CallRecords] /\ overlapped' = overlapped
      BY <2>13, <2>11, EndsType DEF Confirm, Ends
    <3>2. QED
      BY <2>13, <3>1 DEF Confirm, TypeOK
  <2>14. CASE ConfirmIsLost(c)
    <3>1. calls[c].provider \in Providers
      BY <2>14, Busy, CallFields DEF ConfirmIsLost
    <3>2. QED
      BY <2>14, <2>11, <3>1 DEF ConfirmIsLost, TypeOK
  <2>15. CASE Undo(c)
    <3>1. calls[c].previous \in Keys \cup {NoKey}
      BY <2>15, Busy, CallFields DEF Undo
    <3>2. QED
      BY <2>15, <3>1, EndsType DEF Undo, Ends, TypeOK
  <2>16. CASE UndoFails(c)
    <3>1. calls[c].provider \in Providers
      BY <2>16, Busy, CallFields DEF UndoFails
    <3>2. QED
      BY <2>16, <3>1, EndsType DEF UndoFails, Ends, TypeOK
  <2>17. QED
    BY <1>3, <2>1, <2>2, <2>3, <2>4, <2>5, <2>6, <2>7, <2>8, <2>9, <2>10, <2>12, <2>13,
       <2>14, <2>15, <2>16 DEF Works
<1>4. QED
  BY <1>1, <1>2, <1>3 DEF Next

\* Rows, keys and calls keep their types, and a call that goes on to change a key holds the
\* one it would put back.
THEOREM TypeCorrect == Spec => []TypeOK
<1>1. Init => TypeOK
  BY DEF Init, TypeOK, ProviderRows, CallRecords
<1>2. TypeOK /\ [Next]_vars => TypeOK'
  BY TypeStep
<1>3. QED
  BY <1>1, <1>2, PTL DEF Spec
-----------------------------------------------------------------------------
(* The invariant behind the properties.                                    *)

\* Nothing about p changes.
Untouched(p) ==
  /\ providers'[p] = providers[p] /\ keychain'[p] = keychain[p]
  /\ p \in overlapped' <=> p \in overlapped
  /\ p \in faulty' <=> p \in faulty
  /\ \A c \in Calls : (WorksOn(c, p) \/ WorksOn(c, p)') => calls'[c] = calls[c]

LEMMA UntouchedInv ==
  ASSUME NEW p \in Providers, ProviderInv(p), Untouched(p)
  PROVE  ProviderInv(p)'
<1> USE DEF Untouched, WorksOn, Active
<1>1. CreationIsAlone(p)'
  BY DEF ProviderInv, CreationIsAlone
<1>2. UndoneCreationIsGone(p)'
  BY DEF ProviderInv, UndoneCreationIsGone
<1>3. MissingKeyIsHeld(p)'
  BY DEF ProviderInv, MissingKeyIsHeld
<1>4. OneAtATime(p)'
  <2>1. SUFFICES ASSUME p \notin overlapped' \cup faulty'
                 PROVE  /\ \A c, d \in Calls : WorksOn(c, p)' /\ WorksOn(d, p)' => c = d
                        /\ (\A c \in Calls : ~WorksOn(c, p)') => (keychain'[p] # NoKey <=> Active(p)')
                        /\ \A c \in Calls : WorksOn(c, p)' => Progress(c, p)'
    BY DEF OneAtATime
  <2>2. OneAtATime(p) /\ p \notin overlapped \cup faulty
    BY <2>1 DEF ProviderInv
  <2>3. \A c, d \in Calls : WorksOn(c, p)' /\ WorksOn(d, p)' => c = d
    BY <2>2 DEF OneAtATime
  <2>4. (\A c \in Calls : ~WorksOn(c, p)') => (keychain'[p] # NoKey <=> Active(p)')
    BY <2>2 DEF OneAtATime
  <2>5. ASSUME NEW c \in Calls, WorksOn(c, p)'
        PROVE  Progress(c, p)'
    BY <2>2, <2>5 DEF OneAtATime, Progress, Same, Taken
  <2>6. QED
    BY <2>3, <2>4, <2>5
<1>5. QED
  BY <1>1, <1>2, <1>3, <1>4 DEF ProviderInv

\* A call that begins touches its Provider only.
LEMMA BeginsOnOne ==
  ASSUME TypeOK, NEW c \in Calls, NEW p \in Providers, NEW op, NEW at, NEW url, NEW key,
         Begins(c, op, at, p, url, key),
         providers' = providers /\ faulty' = faulty,
         \A q \in Providers : q # p => keychain'[q] = keychain[q]
  PROVE  /\ calls[c] = Idle
         /\ calls'[c].op = op /\ calls'[c].at = at /\ calls'[c].provider = p
         /\ calls'[c].previous = NoKey
         /\ calls'[c].found.row = providers[p] /\ calls'[c].found.key = keychain[p]
         /\ \A d \in Calls : d # c => calls'[d] = calls[d]
         /\ p \notin overlapped' => p \notin overlapped
         /\ p \notin overlapped' => \A d \in Calls : ~WorksOn(d, p)
         /\ \A q \in Providers : q # p => Untouched(q)
<1>1. calls'[c] = [op |-> op, at |-> at, provider |-> p, url |-> url, key |-> key,
                   previous |-> NoKey,
                   found |-> [row |-> providers[p], key |-> keychain[p]]]
  BY DEF Begins, TypeOK
<1>2. calls[c] = Idle /\ \A d \in Calls : d # c => calls'[d] = calls[d]
  BY DEF Begins, TypeOK
<1>3. /\ p \notin overlapped' => p \notin overlapped
      /\ p \notin overlapped' => \A d \in Calls : ~WorksOn(d, p)
  BY DEF Begins, UnderWay, WorksOn
<1>4. ASSUME NEW q \in Providers, q # p
      PROVE  Untouched(q)
  <2>1. q \in overlapped' <=> q \in overlapped
    BY <1>4 DEF Begins
  <2>2. ~WorksOn(c, q) /\ ~WorksOn(c, q)'
    BY <1>1, <1>4, IdleFields DEF Begins, WorksOn
  <2>3. \A d \in Calls : (WorksOn(d, q) \/ WorksOn(d, q)') => calls'[d] = calls[d]
    BY <1>2, <2>2
  <2>4. QED
    BY <1>4, <2>1, <2>3 DEF Untouched
<1>5. /\ calls'[c].op = op /\ calls'[c].at = at /\ calls'[c].provider = p
      /\ calls'[c].previous = NoKey
      /\ calls'[c].found.row = providers[p] /\ calls'[c].found.key = keychain[p]
  BY <1>1
<1>6. QED
  BY <1>2, <1>3, <1>4, <1>5

\* The call c on p moves on or ends, and touches nothing but p.
GoesOn(c, p, at) ==
  /\ calls[c] # Idle /\ WorksOn(c, p)
  /\ overlapped' = overlapped
  /\ faulty \subseteq faulty'
  /\ \A d \in Calls : d # c => calls'[d] = calls[d]
  /\ \/ /\ calls'[c].at = at /\ calls'[c].op = calls[c].op
        /\ calls'[c].provider = p /\ calls'[c].found = calls[c].found
     \/ calls'[c] = Idle
  /\ \A q \in Providers : q # p =>
       /\ providers'[q] = providers[q] /\ keychain'[q] = keychain[q]
       /\ q \in faulty' <=> q \in faulty

LEMMA MovesEffects ==
  ASSUME TypeOK, NEW c \in Calls, calls[c] # Idle, NEW at, Moves(c, at)
  PROVE  /\ overlapped' = overlapped
         /\ \A d \in Calls : d # c => calls'[d] = calls[d]
         /\ calls'[c].at = at /\ calls'[c].op = calls[c].op
         /\ calls'[c].provider = calls[c].provider /\ calls'[c].found = calls[c].found
         /\ calls'[c].previous = calls[c].previous
<1>1. calls'[c] = [calls[c] EXCEPT !.at = at]
  BY DEF Moves, TypeOK
<1>2. /\ [calls[c] EXCEPT !.at = at].at = at
      /\ [calls[c] EXCEPT !.at = at].op = calls[c].op
      /\ [calls[c] EXCEPT !.at = at].provider = calls[c].provider
      /\ [calls[c] EXCEPT !.at = at].found = calls[c].found
      /\ [calls[c] EXCEPT !.at = at].previous = calls[c].previous
  BY DEF TypeOK, CallRecords
<1>3. QED
  BY <1>1, <1>2 DEF Moves, TypeOK

LEMMA EndsEffects ==
  ASSUME TypeOK, NEW c \in Calls, Ends(c)
  PROVE  /\ overlapped' = overlapped
         /\ \A d \in Calls : d # c => calls'[d] = calls[d]
         /\ calls'[c] = Idle
  BY DEF Ends, TypeOK

LEMMA GoesOnTouches ==
  ASSUME TypeOK, NEW c \in Calls, NEW p \in Providers, NEW at, GoesOn(c, p, at)
  PROVE  \A q \in Providers : q # p => Untouched(q)
<1>1. SUFFICES ASSUME NEW q \in Providers, q # p
               PROVE  Untouched(q)
  OBVIOUS
<1>2. ~WorksOn(c, q) /\ ~WorksOn(c, q)'
  BY <1>1, IdleFields DEF GoesOn, WorksOn
<1>3. \A d \in Calls : (WorksOn(d, q) \/ WorksOn(d, q)') => calls'[d] = calls[d]
  BY <1>2 DEF GoesOn
<1>4. QED
  BY <1>1, <1>3 DEF GoesOn, Untouched

\* What the step of a call under way has to show, for p alone.
Keeps(c, p, at) ==
  /\ at = "persist" => calls[c].op # "create"
  /\ Active(p)' => (Active(p) \/ (calls[c].op = "create" /\ calls[c].at = "persist"))
  /\ (calls'[c] # Idle /\ calls[c].op = "create" /\ at = "undo") => ~Active(p)' \/ p \in faulty'
  /\ (Active(p)' /\ keychain'[p] = NoKey /\ p \notin faulty') =>
       \/ calls'[c] # Idle /\ calls[c].op = "delete" /\ at \in {"persist", "undo"}
       \/ /\ Active(p) /\ keychain[p] = NoKey
          /\ ~(calls[c].op = "delete" /\ calls[c].at \in {"persist", "undo"})
  /\ (p \notin faulty' /\ p \notin overlapped /\ Progress(c, p)) =>
       /\ calls'[c] = Idle => (keychain'[p] # NoKey <=> Active(p)')
       /\ calls'[c] # Idle => Progress(c, p)'

LEMMA GoesOnInv ==
  ASSUME TypeOK, NEW c \in Calls, NEW p \in Providers, NEW at, GoesOn(c, p, at),
         \A q \in Providers : ProviderInv(q), Keeps(c, p, at)
  PROVE  \A q \in Providers : ProviderInv(q)'
<1>1. /\ \/ /\ calls'[c].at = at /\ calls'[c].op = calls[c].op
            /\ calls'[c].provider = p
         \/ calls'[c] = Idle
      /\ \A d \in Calls : d # c => calls'[d] = calls[d]
      /\ \A q \in Providers : q # p => Untouched(q)
  BY GoesOnTouches DEF GoesOn
<1>2. calls[c] # Idle /\ WorksOn(c, p) /\ overlapped' = overlapped /\ faulty \subseteq faulty'
  BY DEF GoesOn
<1>3. CreationIsAlone(p) /\ UndoneCreationIsGone(p) /\ MissingKeyIsHeld(p) /\ OneAtATime(p)
  BY DEF ProviderInv
<1>4. CreationIsAlone(p)'
  BY <1>1, <1>2, <1>3, IdleFields DEF CreationIsAlone, WorksOn, Keeps
<1>5. UndoneCreationIsGone(p)'
  <2>1. SUFFICES ASSUME NEW d \in Calls, calls'[d].provider = p, calls'[d].op = "create",
                        calls'[d].at = "undo", p \notin faulty'
                 PROVE  ~Active(p)'
    BY DEF UndoneCreationIsGone, WorksOn
  <2>2. CASE d = c
    BY <1>1, <1>2, <2>1, <2>2, IdleFields DEF Keeps
  <2>3. CASE d # c
    <3>1. calls[d] = calls'[d] /\ ~Active(p)
      BY <1>1, <1>2, <1>3, <2>1, <2>3 DEF UndoneCreationIsGone, WorksOn
    <3>2. ~(calls[c].op = "create" /\ calls[c].at = "persist")
      BY <1>2, <1>3, <2>1, <2>3, <3>1 DEF CreationIsAlone, WorksOn
    <3>3. QED
      BY <3>1, <3>2 DEF Keeps
  <2>4. QED
    BY <2>2, <2>3
<1>6. MissingKeyIsHeld(p)'
  <2>1. SUFFICES ASSUME Active(p)', keychain'[p] = NoKey, p \notin faulty'
                 PROVE  \E d \in Calls : /\ calls'[d].provider = p /\ calls'[d].op = "delete"
                                         /\ calls'[d].at \in {"persist", "undo"}
    BY DEF MissingKeyIsHeld, WorksOn
  <2>2. CASE calls'[c] # Idle /\ calls[c].op = "delete" /\ at \in {"persist", "undo"}
    BY <1>1, <2>2
  <2>3. CASE /\ Active(p) /\ keychain[p] = NoKey
             /\ ~(calls[c].op = "delete" /\ calls[c].at \in {"persist", "undo"})
    <3>1. PICK d \in Calls : /\ WorksOn(d, p) /\ calls[d].op = "delete"
                             /\ calls[d].at \in {"persist", "undo"}
      BY <1>2, <1>3, <2>1, <2>3 DEF MissingKeyIsHeld
    <3>2. d # c
      BY <2>3, <3>1
    <3>3. QED
      BY <1>1, <3>1, <3>2 DEF WorksOn
  <2>4. QED
    BY <2>1, <2>2, <2>3 DEF Keeps
<1>7. OneAtATime(p)'
  <2>1. SUFFICES ASSUME p \notin overlapped' \cup faulty'
                 PROVE  /\ \A d, e \in Calls : WorksOn(d, p)' /\ WorksOn(e, p)' => d = e
                        /\ (\A d \in Calls : ~WorksOn(d, p)') => (keychain'[p] # NoKey <=> Active(p)')
                        /\ \A d \in Calls : WorksOn(d, p)' => Progress(d, p)'
    BY DEF OneAtATime
  <2>2. /\ Progress(c, p)
        /\ \A d \in Calls : WorksOn(d, p) => d = c
    BY <1>2, <1>3, <2>1 DEF OneAtATime
  <2>3. \A d \in Calls : WorksOn(d, p)' => d = c /\ calls'[c] # Idle
    BY <1>1, <2>2, IdleFields DEF WorksOn
  <2>4. IF calls'[c] = Idle THEN keychain'[p] # NoKey <=> Active(p)' ELSE Progress(c, p)'
    BY <1>2, <2>1, <2>2 DEF Keeps
  <2>5. calls'[c] # Idle => WorksOn(c, p)'
    BY <1>1 DEF WorksOn
  <2>6. QED
    BY <2>3, <2>4, <2>5
<1>8. QED
  BY <1>1, <1>4, <1>5, <1>6, <1>7, UntouchedInv DEF ProviderInv

\* A call under way on p keeps the invariant.
LEMMA CallStep ==
  ASSUME TypeOK, NEW c \in Calls, calls[c] # Idle, NEW p \in Providers, WorksOn(c, p),
         \A q \in Providers : ProviderInv(q), Works(c)
  PROVE  \A q \in Providers : ProviderInv(q)'
<1> USE DEF WorksOn, Active
<1>1. CASE ResolveKey(c)
  <2> DEFINE at == IF calls[c].op = "update" THEN "store" ELSE "remove"
             k == keychain[p]
  <2>1. calls[c].at = "resolve" /\ k \in Keys
    BY <1>1 DEF ResolveKey, TypeOK
  <2>2. /\ \A d \in Calls : d # c => calls'[d] = calls[d]
        /\ calls'[c].at = at /\ calls'[c].op = calls[c].op
        /\ calls'[c].provider = p /\ calls'[c].found = calls[c].found
        /\ calls'[c].previous = k
    <3> DEFINE taken == [calls[c] EXCEPT !.previous = k]
    <3>1. calls'[c] = [taken EXCEPT !.at = at] /\ \A d \in Calls : d # c => calls'[d] = calls[d]
      BY <1>1 DEF ResolveKey, TypeOK
    <3>2. /\ [taken EXCEPT !.at = at].at = at /\ [taken EXCEPT !.at = at].op = calls[c].op
          /\ [taken EXCEPT !.at = at].provider = p
          /\ [taken EXCEPT !.at = at].found = calls[c].found
          /\ [taken EXCEPT !.at = at].previous = k
      BY DEF TypeOK, CallRecords
    <3> HIDE DEF taken, at, k
    <3>3. QED
      BY <3>1, <3>2
  <2>3. /\ keychain' = keychain /\ providers' = providers /\ faulty' = faulty
        /\ overlapped' = overlapped /\ (Active(p)' <=> Active(p))
    BY <1>1 DEF ResolveKey, Active
  <2> HIDE DEF at
  <2>4. GoesOn(c, p, at)
    BY <2>2, <2>3 DEF GoesOn
  <2>5. at \in {"store", "remove"} /\ calls'[c] # Idle /\ calls[c].op \in {"update", "delete"}
    BY <2>1, <2>2, IdleFields, CallSteps DEF at
  <2>6. ASSUME Progress(c, p)
        PROVE  Progress(c, p)'
    BY <2>1, <2>2, <2>3, <2>5, <2>6 DEF Progress, Same, Taken
  <2>7. Keeps(c, p, at)
    BY <2>1, <2>3, <2>5, <2>6, KeysAssumption DEF Keeps
  <2>8. QED
    BY <2>4, <2>7, GoesOnInv
<1>2. CASE StoreKey(c)
  <2>1. GoesOn(c, p, "persist")
    BY <1>2, MovesEffects DEF StoreKey, GoesOn, TypeOK
  <2>2. /\ keychain'[p] \in Keys /\ calls[c].op = "update" /\ providers'[p] = providers[p]
        /\ calls[c].previous # NoKey /\ (Active(p)' <=> Active(p))
    BY <1>2, CallSteps, KeysAssumption DEF StoreKey, TypeOK, Active
  <2>3. /\ calls'[c].at = "persist" /\ calls'[c].op = "update"
        /\ calls'[c].found = calls[c].found /\ calls'[c].previous = calls[c].previous
    BY <1>2, <2>2, MovesEffects DEF StoreKey
  <2>4. calls'[c] # Idle
    BY <2>3, IdleFields
  <2>5. ASSUME Progress(c, p)
        PROVE  Progress(c, p)'
    BY <1>2, <2>2, <2>3, <2>5, KeysAssumption DEF StoreKey, Progress, Same, Taken
  <2>6. Keeps(c, p, "persist")
    BY <2>2, <2>4, <2>5, KeysAssumption DEF Keeps
  <2>7. QED
    BY <2>1, <2>6, GoesOnInv
<1>3. CASE RemoveKey(c)
  <2>1. GoesOn(c, p, "persist")
    BY <1>3, MovesEffects DEF RemoveKey, GoesOn, TypeOK
  <2>2. /\ keychain'[p] = NoKey /\ calls[c].op = "delete" /\ providers'[p] = providers[p]
        /\ calls[c].at = "remove" /\ (Active(p)' <=> Active(p))
    BY <1>3, CallSteps DEF RemoveKey, TypeOK, Active
  <2>3. /\ calls'[c].at = "persist" /\ calls'[c].op = "delete"
        /\ calls'[c].found = calls[c].found /\ calls'[c].previous = calls[c].previous
    BY <1>3, <2>2, MovesEffects DEF RemoveKey
  <2>4. calls'[c] # Idle
    BY <2>3, IdleFields
  <2>5. ASSUME Progress(c, p)
        PROVE  Progress(c, p)'
    BY <2>2, <2>3, <2>5 DEF Progress, Same, Taken
  <2>6. Keeps(c, p, "persist")
    BY <2>2, <2>4, <2>5 DEF Keeps
  <2>7. QED
    BY <2>1, <2>6, GoesOnInv
<1>4. CASE GiveUp(c)
  <2>1. GoesOn(c, p, "none")
    BY <1>4, EndsEffects DEF GiveUp, GoesOn
  <2>2. /\ keychain' = keychain /\ providers' = providers /\ calls'[c] = Idle
        /\ calls[c].at \in {"resolve", "store", "remove"} /\ (Active(p)' <=> Active(p))
    BY <1>4, EndsEffects DEF GiveUp, Active
  <2>3. ASSUME Progress(c, p)
        PROVE  keychain'[p] # NoKey <=> Active(p)'
    BY <2>2, <2>3, CallSteps DEF Progress, Same, Taken
  <2>4. Keeps(c, p, "none")
    BY <2>2, <2>3 DEF Keeps
  <2>5. QED
    BY <2>1, <2>4, GoesOnInv
<1>5. CASE InsertRow(c)
  <2>1. GoesOn(c, p, "confirm")
    BY <1>5, MovesEffects DEF InsertRow, GoesOn, TypeOK
  <2>2. /\ keychain'[p] = keychain[p] /\ Active(p)' /\ keychain[p] # NoKey
        /\ calls[c].op = "create" /\ calls[c].at = "persist"
    BY <1>5 DEF InsertRow, TypeOK, ProviderInv, CreationIsAlone, Active
  <2>3. /\ calls'[c].at = "confirm" /\ calls'[c].op = "create"
        /\ calls'[c].found = calls[c].found
    BY <1>5, <2>2, MovesEffects DEF InsertRow
  <2>4. calls'[c] # Idle
    BY <2>3, IdleFields
  <2>5. ASSUME Progress(c, p)
        PROVE  Progress(c, p)'
    BY <2>2, <2>3, <2>5 DEF Progress
  <2>6. Keeps(c, p, "confirm")
    BY <2>2, <2>4, <2>5 DEF Keeps
  <2>7. QED
    BY <2>1, <2>6, GoesOnInv
<1>6. CASE UpdateRow(c)
  <2>1. GoesOn(c, p, "confirm")
    BY <1>6, MovesEffects DEF UpdateRow, GoesOn, TypeOK
  <2>2. /\ keychain'[p] = keychain[p] /\ calls[c].op = "update" /\ Active(p) /\ Active(p)'
    BY <1>6 DEF UpdateRow, TypeOK, ProviderRows, NoRow, Active
  <2>3. /\ calls'[c].at = "confirm" /\ calls'[c].op = "update"
        /\ calls'[c].found = calls[c].found
    BY <1>6, <2>2, MovesEffects DEF UpdateRow
  <2>4. calls'[c] # Idle
    BY <2>3, IdleFields
  <2>5. ASSUME Progress(c, p)
        PROVE  Progress(c, p)'
    BY <2>2, <2>3, <2>5 DEF Progress
  <2>6. Keeps(c, p, "confirm")
    BY <2>2, <2>4, <2>5 DEF Keeps
  <2>7. QED
    BY <2>1, <2>6, GoesOnInv
<1>7. CASE DeleteRow(c)
  <2>1. GoesOn(c, p, "none")
    BY <1>7, EndsEffects DEF DeleteRow, GoesOn, TypeOK
  <2>2. /\ keychain' = keychain /\ calls'[c] = Idle /\ ~Active(p)'
        /\ calls[c].op = "delete" /\ calls[c].at = "persist"
    BY <1>7, EndsEffects DEF DeleteRow, TypeOK, ProviderRows, NoRow, Active
  <2>3. ASSUME Progress(c, p)
        PROVE  keychain'[p] = NoKey
    BY <2>2, <2>3 DEF Progress
  <2>4. Keeps(c, p, "none")
    BY <2>2, <2>3 DEF Keeps
  <2>5. QED
    BY <2>1, <2>4, GoesOnInv
<1>8. ASSUME calls[c].at \in {"persist", "confirm"}, Fails(c), providers' = providers,
             keychain' = keychain, faulty \subseteq faulty', faulty' \subseteq faulty \cup {p},
             calls[c].at = "confirm" => ~Active(p) \/ p \in faulty'
      PROVE  \A q \in Providers : ProviderInv(q)'
  <2>1. GoesOn(c, p, "undo")
    BY <1>8, MovesEffects, EndsEffects DEF Fails, GoesOn
  <2>2. /\ NeedsUndo(c) => /\ calls'[c].at = "undo" /\ calls'[c].op = calls[c].op
                           /\ calls'[c].found = calls[c].found
                           /\ calls'[c].previous = calls[c].previous
        /\ ~NeedsUndo(c) => calls'[c] = Idle
        /\ Active(p)' <=> Active(p)
    BY <1>8, MovesEffects, EndsEffects DEF Fails, Active
  <2>3. ASSUME calls[c].op = "create", calls[c].at = "persist"
        PROVE  ~Active(p)
    BY <2>3 DEF ProviderInv, CreationIsAlone, NoRow, Active
  <2>4. ASSUME Progress(c, p), p \notin faulty'
        PROVE  /\ calls'[c] = Idle => (keychain'[p] # NoKey <=> Active(p)')
               /\ calls'[c] # Idle => Progress(c, p)'
    <3>1. calls[c].at = "persist"
      BY <1>8, <2>4, CallSteps DEF Progress
    <3>2. CASE NeedsUndo(c)
      BY <1>8, <2>2, <2>4, <3>1, <3>2, IdleFields, CallSteps DEF Progress, Same, Taken
    <3>3. CASE ~NeedsUndo(c)
      BY <1>8, <2>2, <2>4, <3>1, <3>3, CallSteps DEF Progress, Same, Taken, NeedsUndo
    <3>4. QED
      BY <3>2, <3>3
  <2>5. calls[c].op = "delete" => calls'[c] # Idle
    BY <2>2, IdleFields DEF NeedsUndo
  <2>6. Keeps(c, p, "undo")
    BY <1>8, <2>2, <2>3, <2>4, <2>5 DEF Keeps
  <2>7. QED
    BY <2>1, <2>6, GoesOnInv
<1>9. CASE PersistFails(c)
  BY <1>8, <1>9 DEF PersistFails
<1>10. CASE Confirm(c)
  <2>1. CASE Active(p)
    <3>1. GoesOn(c, p, "none")
      BY <1>10, <2>1, EndsEffects DEF Confirm, GoesOn
    <3>2. /\ keychain' = keychain /\ providers' = providers /\ calls'[c] = Idle
          /\ calls[c].at = "confirm" /\ Active(p)'
      BY <1>10, <2>1, EndsEffects DEF Confirm, Active
    <3>3. ASSUME Progress(c, p)
          PROVE  keychain'[p] # NoKey
      BY <3>2, <3>3, CallSteps DEF Progress
    <3>4. Keeps(c, p, "none")
      BY <2>1, <3>2, <3>3 DEF Keeps
    <3>5. QED
      BY <3>1, <3>4, GoesOnInv
  <2>2. CASE ~Active(p)
    BY <1>8, <1>10, <2>2 DEF Confirm
  <2>3. QED
    BY <2>1, <2>2
<1>11. CASE ConfirmIsLost(c)
  BY <1>8, <1>11 DEF ConfirmIsLost
<1>12. CASE Undo(c)
  <2>1. GoesOn(c, p, "none")
    BY <1>12, EndsEffects DEF Undo, GoesOn, TypeOK
  <2>2. /\ keychain'[p] = calls[c].previous /\ providers' = providers /\ faulty' = faulty
        /\ calls'[c] = Idle /\ calls[c].at = "undo" /\ (Active(p)' <=> Active(p))
    BY <1>12, EndsEffects DEF Undo, TypeOK, Active
  <2>3. CASE calls[c].op = "create"
    <3>1. p \notin faulty => ~Active(p)
      BY <2>2, <2>3 DEF ProviderInv, UndoneCreationIsGone
    <3>2. keychain'[p] = NoKey
      BY <2>2, <2>3, CallSteps
    <3>3. Keeps(c, p, "none")
      BY <2>2, <2>3, <3>1, <3>2 DEF Keeps
    <3>4. QED
      BY <2>1, <3>3, GoesOnInv
  <2>4. CASE calls[c].op # "create"
    <3>1. keychain'[p] # NoKey
      BY <2>2, <2>4, CallSteps, CallFields, KeysAssumption
    <3>2. ASSUME Progress(c, p)
          PROVE  Active(p)'
      BY <2>2, <2>4, <3>1, <3>2, CallFields DEF Progress, Taken, Active
    <3>3. Keeps(c, p, "none")
      BY <2>2, <2>4, <3>1, <3>2 DEF Keeps
    <3>4. QED
      BY <2>1, <3>3, GoesOnInv
  <2>5. QED
    BY <2>3, <2>4
<1>13. CASE UndoFails(c)
  <2>1. GoesOn(c, p, "none")
    BY <1>13, EndsEffects DEF UndoFails, GoesOn
  <2>2. (Active(p)' <=> Active(p)) /\ p \in faulty' /\ calls'[c] = Idle
    BY <1>13, EndsEffects DEF UndoFails, Active
  <2>3. Keeps(c, p, "none")
    BY <2>2 DEF Keeps
  <2>4. QED
    BY <2>1, <2>3, GoesOnInv
<1>14. QED
  BY <1>1, <1>2, <1>3, <1>4, <1>5, <1>6, <1>7, <1>9, <1>10, <1>11, <1>12, <1>13
     DEF Works, CreateProvider, UpdateProvider, DeleteProvider, Begins

\* A call that begins keeps the invariant.
LEMMA BeginStep ==
  ASSUME TypeOK, NEW c \in Calls, \A q \in Providers : ProviderInv(q),
         CreateProvider(c) \/ UpdateProvider(c) \/ DeleteProvider(c)
  PROVE  \A q \in Providers : ProviderInv(q)'
<1>1. CASE CreateProvider(c)
  <2>1. PICK p \in Providers, url \in Urls, key \in Keys :
          /\ providers[p] = NoRow /\ keychain[p] = NoKey /\ UnderWay(p) = {}
          /\ Begins(c, "create", "persist", p, url, key)
          /\ keychain' = [keychain EXCEPT ![p] = key]
    BY <1>1 DEF CreateProvider
  <2>2. providers' = providers /\ faulty' = faulty
    BY <1>1 DEF CreateProvider
  <2>3. \A q \in Providers : q # p => keychain'[q] = keychain[q]
    BY <2>1 DEF TypeOK
  <2>4. /\ calls'[c].op = "create" /\ calls'[c].at = "persist" /\ calls'[c].provider = p
        /\ calls'[c].found.row = NoRow /\ calls'[c].found.key = NoKey
        /\ \A d \in Calls : d # c => calls'[d] = calls[d]
        /\ p \notin overlapped' => p \notin overlapped
        /\ \A q \in Providers : q # p => Untouched(q)
    BY <2>1, <2>2, <2>3, BeginsOnOne
  <2>5. \A d \in Calls : WorksOn(d, p)' => d = c
    BY <2>1, <2>4 DEF UnderWay, WorksOn
  <2>6. keychain'[p] # NoKey /\ providers'[p] = NoRow
    BY <2>1, <2>2, KeysAssumption DEF TypeOK
  <2>7. Progress(c, p)'
    BY <2>4, <2>6 DEF Progress
  <2>8. ProviderInv(p)'
    <3>1. CreationIsAlone(p)' /\ UndoneCreationIsGone(p)'
      BY <2>4, <2>5, <2>6 DEF CreationIsAlone, UndoneCreationIsGone
    <3>2. MissingKeyIsHeld(p)'
      BY <2>6 DEF MissingKeyIsHeld
    <3>3. OneAtATime(p)'
      BY <2>4, <2>5, <2>7 DEF OneAtATime, WorksOn
    <3>4. QED
      BY <3>1, <3>2, <3>3 DEF ProviderInv
  <2>9. QED
    BY <2>4, <2>8, UntouchedInv
<1>2. CASE UpdateProvider(c) \/ DeleteProvider(c)
  <2>1. PICK p \in Providers, op \in {"update", "delete"}, at \in {"persist", "resolve"} :
          /\ Active(p) /\ (at = "persist" => op = "update")
          /\ \E url, key : Begins(c, op, at, p, url, key)
    BY <1>2 DEF UpdateProvider, DeleteProvider
  <2>2. providers' = providers /\ faulty' = faulty /\ keychain' = keychain
    BY <1>2 DEF UpdateProvider, DeleteProvider
  <2>3. /\ calls'[c].op = op /\ calls'[c].at = at /\ calls'[c].provider = p
        /\ calls'[c].previous = NoKey
        /\ calls'[c].found.row = providers[p] /\ calls'[c].found.key = keychain[p]
        /\ \A d \in Calls : d # c => calls'[d] = calls[d]
        /\ calls[c] = Idle
        /\ p \notin overlapped' => p \notin overlapped
        /\ p \notin overlapped' => \A d \in Calls : ~WorksOn(d, p)
        /\ \A q \in Providers : q # p => Untouched(q)
    <3>1. PICK url, key : Begins(c, op, at, p, url, key)
      BY <2>1
    <3>2. \A q \in Providers : q # p => keychain'[q] = keychain[q]
      BY <2>2
    <3>3. QED
      BY <2>2, <3>1, <3>2, BeginsOnOne
  <2>4. /\ Active(p)'
        /\ CreationIsAlone(p) /\ UndoneCreationIsGone(p) /\ MissingKeyIsHeld(p) /\ OneAtATime(p)
    BY <2>1, <2>2 DEF Begins, Active, ProviderInv
  <2>5. \A d \in Calls : WorksOn(d, p) => calls'[d] = calls[d]
    BY <2>3, <2>4, IdleFields DEF WorksOn
  <2>6. CreationIsAlone(p)'
    <3>1. \A d \in Calls : WorksOn(d, p)' /\ calls'[d].op = "create" => calls'[d].at # "persist"
      BY <2>1, <2>3, <2>4 DEF WorksOn, CreationIsAlone, Active, NoRow
    <3>2. QED
      BY <3>1 DEF CreationIsAlone
  <2>7. UndoneCreationIsGone(p)'
    BY <2>1, <2>2, <2>3, <2>4 DEF UndoneCreationIsGone, WorksOn
  <2>8. MissingKeyIsHeld(p)'
    BY <2>1, <2>2, <2>4, <2>5 DEF MissingKeyIsHeld, WorksOn
  <2>9. OneAtATime(p)'
    <3>1. SUFFICES ASSUME p \notin overlapped' \cup faulty'
                   PROVE  OneAtATime(p)'
      BY DEF OneAtATime
    <3>2. /\ p \notin overlapped \cup faulty /\ \A d \in Calls : ~WorksOn(d, p)
          /\ keychain[p] # NoKey
      BY <2>1, <2>2, <2>3, <2>4, <3>1 DEF OneAtATime
    <3>3. \A d \in Calls : WorksOn(d, p)' => d = c
      BY <2>3, <3>2 DEF WorksOn
    <3>4. Progress(c, p)'
      BY <2>1, <2>2, <2>3, <2>4, <3>2 DEF Progress, Same, Active
    <3>5. QED
      BY <2>3, <3>3, <3>4 DEF OneAtATime, WorksOn
  <2>10. QED
    BY <2>3, <2>6, <2>7, <2>8, <2>9, UntouchedInv DEF ProviderInv
<1>3. QED
  BY <1>1, <1>2

LEMMA InvStep ==
  ASSUME IInv, [Next]_vars
  PROVE  IInv'
<1>1. TypeOK /\ \A q \in Providers : ProviderInv(q)
  BY DEF IInv
<1>2. TypeOK'
  BY <1>1, TypeStep
<1>3. CASE UNCHANGED vars
  <2>1. \A p \in Providers : Untouched(p)
    BY <1>3 DEF vars, Untouched
  <2>2. QED
    BY <1>1, <1>2, <2>1, UntouchedInv DEF IInv
<1>4. CASE Crash
  <2>1. /\ \A d \in Calls : calls'[d] = Idle
        /\ providers' = providers /\ keychain' = keychain /\ overlapped' = overlapped
        /\ \A p \in Providers : p \in faulty' <=> p \in faulty \/ UnderWay(p) # {}
    BY <1>1, <1>4 DEF Crash, TypeOK
  <2>2. \A d \in Calls, p \in Providers : ~WorksOn(d, p)'
    BY <2>1, IdleFields DEF WorksOn
  <2>3. ASSUME NEW p \in Providers, UnderWay(p) = {}
        PROVE  ProviderInv(p)'
    <3>1. Untouched(p)
      BY <2>1, <2>2, <2>3 DEF Untouched, UnderWay, WorksOn
    <3>2. QED
      BY <1>1, <3>1, UntouchedInv
  <2>4. ASSUME NEW p \in Providers, UnderWay(p) # {}
        PROVE  ProviderInv(p)'
    <3>1. p \in faulty'
      BY <2>1, <2>4
    <3>2. QED
      BY <2>2, <3>1 DEF ProviderInv, CreationIsAlone, UndoneCreationIsGone, MissingKeyIsHeld, OneAtATime
  <2>5. QED
    BY <1>2, <2>3, <2>4 DEF IInv
<1>5. ASSUME NEW c \in Calls, Works(c)
      PROVE  IInv'
  <2>1. CASE CreateProvider(c) \/ UpdateProvider(c) \/ DeleteProvider(c)
    BY <1>1, <1>2, <2>1, BeginStep DEF IInv
  <2>2. CASE ~(CreateProvider(c) \/ UpdateProvider(c) \/ DeleteProvider(c))
    <3>1. calls[c] # Idle
      BY <1>5, <2>2, Busy DEF Works, ResolveKey, StoreKey, RemoveKey, GiveUp, InsertRow, UpdateRow,
         DeleteRow, PersistFails, Confirm, ConfirmIsLost, Undo, UndoFails
    <3>2. calls[c].provider \in Providers /\ WorksOn(c, calls[c].provider)
      BY <1>1, <3>1, CallFields DEF WorksOn
    <3>3. QED
      BY <1>1, <1>2, <1>5, <3>1, <3>2, CallStep DEF IInv
  <2>3. QED
    BY <2>1, <2>2
<1>6. QED
  BY <1>3, <1>4, <1>5 DEF Next

LEMMA InvInit == Init => IInv
<1>1. SUFFICES ASSUME Init PROVE IInv
  OBVIOUS
<1>2. TypeOK
  BY <1>1 DEF Init, TypeOK, ProviderRows, CallRecords
<1>3. ASSUME NEW p \in Providers PROVE ProviderInv(p)
  <2>1. \A c \in Calls : ~WorksOn(c, p)
    BY <1>1, IdleFields DEF Init, WorksOn
  <2>2. providers[p].state = "absent" /\ keychain[p] = NoKey
    BY <1>1 DEF Init, NoRow
  <2>3. QED
    BY <2>1, <2>2 DEF ProviderInv, CreationIsAlone, UndoneCreationIsGone, MissingKeyIsHeld,
       OneAtATime, Active
<1>4. QED
  BY <1>2, <1>3 DEF IInv

LEMMA Inductive == Spec => []IInv
<1>1. IInv /\ [Next]_vars => IInv'
  BY InvStep
<1>2. QED
  BY InvInit, <1>1, PTL DEF Spec
-----------------------------------------------------------------------------
(* What the invariant shows.                                               *)

\* Between undisturbed calls the two stores agree on which Providers there are.
THEOREM StoresAgree == Spec => []KeysFollowProviders
<1>1. IInv => KeysFollowProviders
  <2>1. SUFFICES ASSUME IInv, NEW p \in Providers, Undisturbed(p)
                 PROVE  keychain[p] # NoKey <=> Active(p)
    BY DEF KeysFollowProviders
  <2>2. OneAtATime(p) /\ \A c \in Calls : ~WorksOn(c, p)
    BY <2>1 DEF IInv, ProviderInv, Undisturbed, UnderWay, WorksOn
  <2>3. QED
    BY <2>1, <2>2 DEF OneAtATime, Undisturbed
<1>2. QED
  BY Inductive, <1>1, PTL

\* Overlapping calls never take the key of a Provider that stays active.
THEOREM ActiveKeysArePresent == Spec => []ActiveProvidersHaveTheirKey
<1>1. IInv => ActiveProvidersHaveTheirKey
  BY DEF IInv, ProviderInv, MissingKeyIsHeld, ActiveProvidersHaveTheirKey, UnderWay, WorksOn
<1>2. QED
  BY Inductive, <1>1, PTL

\* A call of Next that is not c's leaves c alone.
LEMMA OtherSteps ==
  ASSUME TypeOK, NEW c \in Calls, NEW d \in Calls, d # c, Works(d)
  PROVE  calls'[c] = calls[c]
<1>1. CASE CreateProvider(d) \/ UpdateProvider(d) \/ DeleteProvider(d)
  BY <1>1 DEF CreateProvider, UpdateProvider, DeleteProvider, Begins, TypeOK
<1>2. CASE ~(CreateProvider(d) \/ UpdateProvider(d) \/ DeleteProvider(d))
  BY <1>2 DEF Works, ResolveKey, StoreKey, RemoveKey, GiveUp, InsertRow, UpdateRow, DeleteRow,
     PersistFails, Confirm, ConfirmIsLost, Undo, UndoFails, Fails, Moves, Ends, TypeOK
<1>3. QED
  BY <1>1, <1>2

LEMMA FailureStep ==
  ASSUME IInv, Next, NEW c \in Calls, NEW p \in Providers, calls[c].provider = p,
         calls[c].at \notin {"none", "confirm"}, calls'[c] = Idle,
         ~(Active(p) /\ ~Active(p)'), p \notin overlapped \cup faulty'
  PROVE  /\ keychain'[p] = calls[c].found.key
         /\ Active(p)' <=> calls[c].found.row.state = "active"
         /\ Active(p)' => providers'[p].url = calls[c].found.row.url
<1>1. TypeOK /\ calls[c] # Idle /\ WorksOn(c, p) /\ OneAtATime(p)
  BY IdleFields DEF IInv, ProviderInv, WorksOn
<1>2. ~Crash
  BY <1>1 DEF Crash, UnderWay, WorksOn
<1>3. Works(c)
  BY <1>1, <1>2, OtherSteps DEF Next
<1>4. p \notin faulty
  BY <1>1, <1>3 DEF Works, CreateProvider, UpdateProvider, DeleteProvider, Begins, ResolveKey,
     StoreKey, RemoveKey, GiveUp, InsertRow, UpdateRow, DeleteRow, PersistFails, Confirm,
     ConfirmIsLost, Undo, UndoFails
<1>5. Progress(c, p)
  BY <1>1, <1>4 DEF OneAtATime
<1>6. SUFFICES keychain'[p] = calls[c].found.key /\ providers'[p] = calls[c].found.row
  BY <1>6 DEF Active
<1>7. CASE GiveUp(c)
  BY <1>1, <1>5, <1>7, CallSteps DEF GiveUp, Progress, Same
<1>8. CASE PersistFails(c)
  <2>1. ~NeedsUndo(c)
    BY <1>1, <1>8, MovesEffects, IdleFields DEF PersistFails, Fails
  <2>2. QED
    BY <1>5, <1>8, <2>1 DEF PersistFails, NeedsUndo, Progress, Same
<1>9. CASE Undo(c)
  <2>1. keychain'[p] = calls[c].previous /\ providers' = providers /\ calls[c].at = "undo"
    BY <1>1, <1>9 DEF Undo, TypeOK, WorksOn
  <2>2. QED
    BY <1>1, <1>5, <2>1, CallSteps, CallFields, KeysAssumption DEF Progress, Taken
<1>10. CASE UndoFails(c)
  BY <1>10 DEF UndoFails
<1>11. CASE DeleteRow(c)
  BY <1>1, <1>11 DEF DeleteRow, TypeOK, ProviderRows, NoRow, Active, WorksOn
<1>12. CASE ResolveKey(c)
  <2> DEFINE at == IF calls[c].op = "update" THEN "store" ELSE "remove"
             k == keychain[calls[c].provider]
             taken == [calls[c] EXCEPT !.previous = k]
  <2>1. calls'[c] = [taken EXCEPT !.at = at]
    BY <1>1, <1>12 DEF ResolveKey, TypeOK
  <2>2. [taken EXCEPT !.at = at].at = at
    BY <1>1 DEF TypeOK, CallRecords
  <2>3. at # "none"
    OBVIOUS
  <2> HIDE DEF taken, at, k
  <2>4. QED
    BY <2>1, <2>2, <2>3, IdleFields
<1>13. CASE StoreKey(c) \/ RemoveKey(c) \/ InsertRow(c) \/ UpdateRow(c)
  BY <1>1, <1>13, MovesEffects, IdleFields DEF StoreKey, RemoveKey, InsertRow, UpdateRow
<1>14. QED
  BY <1>1, <1>3, <1>7, <1>8, <1>9, <1>10, <1>11, <1>12, <1>13
     DEF Works, CreateProvider, UpdateProvider, DeleteProvider, Begins, Confirm, ConfirmIsLost

\* A call that fails leaves what it found, unless calls overlapped or a crash, a lost answer or
\* a failing undo came in between.
THEOREM FailuresChangeNothing == Spec => FailedCallChangesNothing
<1>1. IInv /\ [Next]_vars =>
        [\A c \in Calls : \A p \in Providers :
           ( /\ calls[c].provider = p /\ calls[c].at \notin {"none", "confirm"}
             /\ calls'[c] = Idle /\ ~(Active(p) /\ ~Active(p)')
             /\ p \notin overlapped \cup faulty' )
           => /\ keychain'[p] = calls[c].found.key
              /\ Active(p)' <=> calls[c].found.row.state = "active"
              /\ Active(p)' => providers'[p].url = calls[c].found.row.url]_vars
  BY FailureStep
<1>2. QED
  BY Inductive, <1>1, PTL DEF Spec, FailedCallChangesNothing
=============================================================================
