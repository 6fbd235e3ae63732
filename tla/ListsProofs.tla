----------------------------- MODULE ListsProofs -----------------------------
(***************************************************************************)
(* The records of the stake list and of the validator list are found by    *)
(* their keys: for every number of validators and stake accounts and every *)
(* capacity, whatever indices the callers give.                            *)
(***************************************************************************)
EXTENDS Lists, LamportSumsProofs, SequenceTheorems

-----------------------------------------------------------------------------
(* What the operators of list.rs do to any list.                           *)

\* An account of n slots of the given records.
Slots(list, n, records) ==
  /\ list = [slot |-> list.slot, count |-> list.count]
  /\ list.slot \in [0..(n - 1) -> records]
  /\ list.count \in 0..n

IsList(list, records) == \E n \in Nat : Slots(list, n, records)

Used(list) == 0..(list.count - 1)

\* No two records have one key.
Distinct(list) ==
  \A i, j \in Used(list) : list.slot[i].key = list.slot[j].key => i = j

(* As many indices as there are below n.                                   *)
LEMMA IndexCount ==
  ASSUME NEW n \in Nat
  PROVE  IsFiniteSet(0..(n - 1)) /\ Cardinality(0..(n - 1)) = n
BY FS_Interval

(* And as many from 1 to n.                                                *)
LEMMA OneTo ==
  ASSUME NEW n \in Nat
  PROVE  IsFiniteSet(1..n) /\ Cardinality(1..n) = n
BY FS_Interval

(* The capacity is the number of slots.                                    *)
LEMMA CapacityIs ==
  ASSUME NEW list, NEW n \in Nat, NEW records, Slots(list, n, records)
  PROVE  Capacity(list) = n /\ list.count \in Nat /\ list.count <= n
<1>1. DOMAIN list.slot = 0..(n - 1)
  BY DEF Slots
<1>2. Cardinality(0..(n - 1)) = n
  BY IndexCount
<1>3. list.count \in 0..n
  BY DEF Slots
<1> QED
  BY <1>1, <1>2, <1>3 DEF Capacity

(* The records fit, and are as many as their keys.                         *)
LEMMA KeysCount ==
  ASSUME NEW list, NEW records, IsList(list, records), Distinct(list)
  PROVE  /\ list.count \in Nat /\ list.count <= Capacity(list)
         /\ Cardinality(Keys(list)) = list.count
<1>1. PICK n \in Nat : Slots(list, n, records)
  BY DEF IsList
<1>2. list.count \in Nat /\ list.count <= Capacity(list)
  BY <1>1, CapacityIs
<1> DEFINE key == [i \in Used(list) |-> list.slot[i].key]
<1>3. Keys(list) = {list.slot[i].key : i \in Used(list)}
  BY DEF Keys, Used, Get
<1>4. key \in Bijection(Used(list), Keys(list))
  BY <1>3 DEF Bijection, Injection, Surjection, IsInjective, Distinct
<1>5. ExistsBijection(Used(list), Keys(list))
  BY <1>4 DEF ExistsBijection
<1>6. IsFiniteSet(Used(list)) /\ Cardinality(Used(list)) = list.count
  BY <1>2, IndexCount, Zenon DEF Used
<1>7. Cardinality(Keys(list)) = Cardinality(Used(list))
  BY <1>5, <1>6, FS_Bijection, Zenon
<1> QED
  BY <1>2, <1>6, <1>7

(* A key finds its record.                                                 *)
LEMMA FindRecord ==
  ASSUME NEW list, Distinct(list), NEW i \in Used(list)
  PROVE  RecordOf(list, list.slot[i].key) = list.slot[i]
<1> DEFINE found == {Get(list, j) : j \in 0..(list.count - 1)}
<1>1. \A record \in found : \E j \in Used(list) : record = list.slot[j]
  BY DEF Get, Used
<1>2. list.slot[i] \in found
  BY DEF Get, Used
<1>3. \A record \in found : record.key = list.slot[i].key => record = list.slot[i]
  BY <1>1 DEF Distinct
<1>4. RecordOf(list, list.slot[i].key)
        = CHOOSE record \in found : record.key = list.slot[i].key
  BY DEF RecordOf
<1> HIDE DEF found
<1> QED
  BY <1>2, <1>3, <1>4

(* A list that has the records of another under their keys.                *)
LEMMA FindSame ==
  ASSUME NEW list, Distinct(list), NEW new, Distinct(new),
         NEW k \in Keys(new), NEW i \in Used(list),
         \E j \in Used(new) : new.slot[j].key = k /\ new.slot[j] = list.slot[i]
  PROVE  k \in Keys(list) /\ RecordOf(new, k) = RecordOf(list, k)
<1>1. PICK j \in Used(new) : new.slot[j].key = k /\ new.slot[j] = list.slot[i]
  OBVIOUS
<1>2. RecordOf(new, k) = new.slot[j] /\ RecordOf(list, k) = list.slot[i]
  BY <1>1, FindRecord
<1>3. k \in Keys(list)
  BY <1>1 DEF Keys, Used, Get
<1> QED
  BY <1>1, <1>2, <1>3

(* A record pushed comes after the others.                                 *)
LEMMA PushList ==
  ASSUME NEW list, NEW records, IsList(list, records), Distinct(list),
         HasRoom(list), NEW item \in records, item.key \notin Keys(list),
         NEW new, new = Push(list, item)
  PROVE  /\ IsList(new, records) /\ Distinct(new)
         /\ Keys(new) = Keys(list) \cup {item.key}
         /\ list.count \in Nat /\ new.count = list.count + 1
         /\ Used(new) = Used(list) \cup {list.count} /\ list.count \notin Used(list)
         /\ \A i \in Used(list) : new.slot[i] = list.slot[i]
         /\ new.slot[list.count] = item
         /\ RecordOf(new, item.key) = item
         /\ \A k \in Keys(list) : RecordOf(new, k) = RecordOf(list, k)
<1>1. PICK n \in Nat : Slots(list, n, records)
  BY DEF IsList
<1>2. list.count \in Nat /\ list.count < n
  BY <1>1, CapacityIs DEF HasRoom
<1>3. /\ new.slot = [list.slot EXCEPT ![list.count] = item] /\ new.count = list.count + 1
      /\ new = [slot |-> new.slot, count |-> new.count]
  BY DEF Push
<1>4. list.slot \in [0..(n - 1) -> records]
  BY <1>1 DEF Slots
<1>5. list.count \in 0..(n - 1) /\ Used(list) \subseteq 0..(n - 1)
  BY <1>2 DEF Used
<1>6. /\ \A i \in Used(list) : new.slot[i] = list.slot[i]
      /\ new.slot[list.count] = item
      /\ new.slot \in [0..(n - 1) -> records]
  BY <1>2, <1>3, <1>4, <1>5 DEF Used
<1>7. Slots(new, n, records)
  BY <1>2, <1>3, <1>6 DEF Slots
<1>8. Used(new) = Used(list) \cup {list.count} /\ list.count \notin Used(list)
  BY <1>2, <1>3 DEF Used
<1>9. \A x : Keys(x) = {x.slot[i].key : i \in Used(x)}
  BY DEF Keys, Used, Get
<1>10. Keys(new) = Keys(list) \cup {item.key}
  BY <1>6, <1>8, <1>9
<1>11. Distinct(new)
  BY <1>6, <1>8, <1>9 DEF Distinct
<1>12. RecordOf(new, item.key) = item
  BY <1>6, <1>8, <1>11, FindRecord
<1>13. \A k \in Keys(list) : RecordOf(new, k) = RecordOf(list, k)
  <2> TAKE k \in Keys(list)
  <2>1. PICK i \in Used(list) : list.slot[i].key = k
    BY <1>9
  <2>2. i \in Used(new) /\ new.slot[i] = list.slot[i] /\ k \in Keys(new)
    BY <2>1, <1>6, <1>8, <1>10
  <2> QED
    BY <2>1, <2>2, <1>11, FindSame
<1> QED
  BY <1>2, <1>3, <1>6, <1>7, <1>8, <1>10, <1>11, <1>12, <1>13 DEF IsList

(* A record written back keeps its key and its place.                      *)
LEMMA SetList ==
  ASSUME NEW list, NEW records, IsList(list, records), Distinct(list),
         NEW index \in Nat, InList(list, index),
         NEW item \in records, item.key = Get(list, index).key,
         NEW new, new = Set(list, index, item)
  PROVE  /\ IsList(new, records) /\ Distinct(new)
         /\ Keys(new) = Keys(list)
         /\ new.count = list.count /\ Used(new) = Used(list) /\ index \in Used(list)
         /\ \A i \in Used(list) : new.slot[i] = IF i = index THEN item ELSE list.slot[i]
         /\ \A k \in Keys(list) :
              RecordOf(new, k) = IF k = item.key THEN item ELSE RecordOf(list, k)
<1>1. PICK n \in Nat : Slots(list, n, records)
  BY DEF IsList
<1>2. list.count \in Nat /\ list.count <= n
  BY <1>1, CapacityIs
<1>3. /\ new.slot = [list.slot EXCEPT ![index] = item] /\ new.count = list.count
      /\ new = [slot |-> new.slot, count |-> new.count]
  BY <1>1 DEF Set, Slots
<1>4. list.slot \in [0..(n - 1) -> records]
  BY <1>1 DEF Slots
<1>5. index \in Used(list) /\ Used(list) \subseteq 0..(n - 1) /\ Used(new) = Used(list)
  BY <1>2, <1>3 DEF Used, InList
<1>6. /\ \A i \in Used(list) : new.slot[i] = IF i = index THEN item ELSE list.slot[i]
      /\ new.slot \in [0..(n - 1) -> records]
  BY <1>3, <1>4, <1>5
<1>7. Slots(new, n, records)
  BY <1>1, <1>3, <1>6 DEF Slots
<1>8. \A i \in Used(list) : new.slot[i].key = list.slot[i].key
  BY <1>6 DEF Get
<1>9. Keys(new) = Keys(list)
  BY <1>5, <1>8 DEF Keys, Used, Get
<1>10. Distinct(new)
  BY <1>5, <1>8 DEF Distinct
<1>11. \A k \in Keys(list) :
         RecordOf(new, k) = IF k = item.key THEN item ELSE RecordOf(list, k)
  <2> TAKE k \in Keys(list)
  <2>1. PICK i \in Used(list) : list.slot[i].key = k
    BY DEF Keys, Used, Get
  <2>2. CASE i = index
    BY <2>1, <2>2, <1>5, <1>6, <1>10, FindRecord DEF Get
  <2>3. CASE i # index
    <3>1. k # item.key
      BY <2>1, <2>3, <1>5 DEF Distinct, Get
    <3>2. i \in Used(new) /\ new.slot[i] = list.slot[i] /\ k \in Keys(new)
      BY <2>1, <2>3, <1>5, <1>6, <1>9
    <3> QED
      BY <2>1, <3>1, <3>2, <1>10, FindSame
  <2> QED
    BY <2>2, <2>3
<1> QED
  BY <1>3, <1>5, <1>6, <1>7, <1>9, <1>10, <1>11 DEF IsList

(* The last record moves into the place of the one removed.                *)
LEMMA RemoveList ==
  ASSUME NEW list, NEW records, IsList(list, records), Distinct(list),
         NEW index \in Nat, InList(list, index),
         NEW new, new = Remove(list, index)
  PROVE  /\ IsList(new, records) /\ Distinct(new)
         /\ Keys(new) = Keys(list) \ {Get(list, index).key}
         /\ new.count \in Nat /\ list.count = new.count + 1
         /\ Used(list) = Used(new) \cup {new.count} /\ new.count \notin Used(new)
         /\ index \in Used(list)
         /\ \A i \in Used(new) :
              new.slot[i] = list.slot[IF i = index THEN new.count ELSE i]
         /\ \A k \in Keys(new) : RecordOf(new, k) = RecordOf(list, k)
<1>1. PICK n \in Nat : Slots(list, n, records)
  BY DEF IsList
<1>2. list.count \in Nat /\ list.count <= n
  BY <1>1, CapacityIs
<1> DEFINE last == list.count - 1
<1>3. /\ new.slot = [list.slot EXCEPT ![index] = list.slot[last]] /\ new.count = last
      /\ new = [slot |-> new.slot, count |-> new.count]
  BY DEF Remove
<1>4. list.slot \in [0..(n - 1) -> records]
  BY <1>1 DEF Slots
<1>5. /\ last \in Nat /\ index \in 0..last /\ last \in 0..(n - 1)
      /\ Used(list) = 0..last /\ Used(new) = 0..(last - 1)
      /\ list.count = last + 1
  BY <1>2, <1>3 DEF Used, InList
<1> HIDE DEF last
<1>6. /\ \A i \in Used(new) : new.slot[i] = list.slot[IF i = index THEN last ELSE i]
      /\ new.slot \in [0..(n - 1) -> records]
  BY <1>3, <1>4, <1>5
<1>7. Slots(new, n, records)
  BY <1>2, <1>3, <1>5, <1>6 DEF Slots
<1>8. Used(list) = Used(new) \cup {last} /\ last \notin Used(new)
  BY <1>5
<1>9. \A x : Keys(x) = {x.slot[i].key : i \in Used(x)}
  BY DEF Keys, Used, Get
<1>10. Distinct(new)
  <2> SUFFICES ASSUME NEW i \in Used(new), NEW j \in Used(new),
                      new.slot[i].key = new.slot[j].key
               PROVE  i = j
    BY DEF Distinct
  <2> DEFINE from(k) == IF k = index THEN last ELSE k
  <2>1. list.slot[from(i)].key = list.slot[from(j)].key
    BY <1>6
  <2>2. from(i) \in Used(list) /\ from(j) \in Used(list)
    BY <1>8
  <2>3. from(i) = from(j)
    BY <2>1, <2>2, Zenon DEF Distinct
  <2> QED
    BY <2>3, <1>8
<1>11. Keys(new) = Keys(list) \ {Get(list, index).key}
  <2>1. ASSUME NEW i \in Used(new)
        PROVE  new.slot[i].key \in Keys(list) \ {list.slot[index].key}
    <3>1. CASE i = index
      <4>1. new.slot[i].key = list.slot[last].key /\ last # index
        BY <3>1, <1>6, <1>8
      <4> QED
        BY <4>1, <1>5, <1>8, <1>9 DEF Distinct
    <3>2. CASE i # index
      <4>1. new.slot[i].key = list.slot[i].key
        BY <3>2, <1>6
      <4> QED
        BY <4>1, <3>2, <1>5, <1>8, <1>9 DEF Distinct
    <3> QED
      BY <3>1, <3>2
  <2>2. ASSUME NEW i \in Used(list), list.slot[i].key # list.slot[index].key
        PROVE  \E j \in Used(new) : new.slot[j].key = list.slot[i].key
    <3>1. CASE i = last
      <4>1. index \in Used(new)
        BY <3>1, <2>2, <1>5, <1>8
      <4> QED
        BY <4>1, <3>1, <1>6
    <3>2. CASE i # last
      <4>1. i \in Used(new) /\ i # index
        BY <3>2, <2>2, <1>8
      <4> QED
        BY <4>1, <1>6
    <3> QED
      BY <3>1, <3>2
  <2> QED
    BY <2>1, <2>2, <1>9 DEF Get
<1>12. \A k \in Keys(new) : RecordOf(new, k) = RecordOf(list, k)
  <2> TAKE k \in Keys(new)
  <2>1. PICK j \in Used(new) : new.slot[j].key = k
    BY <1>9
  <2>2. PICK i \in Used(list) : new.slot[j] = list.slot[i]
    BY <1>6, <1>8
  <2> QED
    BY <2>1, <2>2, <1>10, FindSame
<1> QED
  BY <1>3, <1>5, <1>6, <1>7, <1>8, <1>10, <1>11, <1>12 DEF IsList

(* A change of the account's length keeps the records.                     *)
LEMMA ResizedList ==
  ASSUME NEW list, NEW records, IsList(list, records), Distinct(list),
         NEW capacity \in Nat, Fits(list, capacity), NEW blank \in records,
         NEW new, new = Resized(list, capacity, blank)
  PROVE  /\ IsList(new, records) /\ Distinct(new)
         /\ Keys(new) = Keys(list)
         /\ new.count = list.count /\ Used(new) = Used(list)
         /\ \A i \in Used(list) : new.slot[i] = list.slot[i]
         /\ \A k \in Keys(list) : RecordOf(new, k) = RecordOf(list, k)
<1>1. PICK n \in Nat : Slots(list, n, records)
  BY DEF IsList
<1>2. list.count \in Nat /\ list.count <= n /\ Capacity(list) = n
  BY <1>1, CapacityIs
<1>3. /\ new.slot = [i \in 0..(capacity - 1) |-> IF i < n THEN list.slot[i] ELSE blank]
      /\ new.count = list.count
      /\ new = [slot |-> new.slot, count |-> new.count]
  BY <1>1, <1>2 DEF Resized, Slots
<1>4. list.slot \in [0..(n - 1) -> records] /\ list.count <= capacity
  BY <1>1 DEF Slots, Fits
<1>5. Used(new) = Used(list) /\ \A i \in Used(list) : i \in 0..(capacity - 1) /\ i < n
  BY <1>2, <1>3, <1>4 DEF Used
<1>6. \A i \in Used(list) : new.slot[i] = list.slot[i]
  BY <1>3, <1>5
<1>7. new.slot \in [0..(capacity - 1) -> records]
  BY <1>3, <1>4
<1>8. Slots(new, capacity, records)
  BY <1>2, <1>3, <1>4, <1>7 DEF Slots
<1>9. Distinct(new)
  BY <1>5, <1>6 DEF Distinct
<1>10. Keys(new) = Keys(list)
  BY <1>5, <1>6, Zenon DEF Keys, Get, Used
<1>11. \A k \in Keys(list) : RecordOf(new, k) = RecordOf(list, k)
  <2> TAKE k \in Keys(list)
  <2>1. PICK i \in Used(list) : list.slot[i].key = k
    BY DEF Keys, Used, Get
  <2> QED
    BY <2>1, <1>5, <1>6, <1>9, <1>10, FindSame
<1> QED
  BY <1>3, <1>5, <1>6, <1>8, <1>9, <1>10, <1>11 DEF IsList

-----------------------------------------------------------------------------
(* The two lists, by key.                                                  *)

StakeRecords ==
  [key : Stake \cup {None}, lamports : Nat, active : BOOLEAN]

ValidatorRecords ==
  [key : Validator \cup {None}, active_balance : Nat,
   delinquent_upgrader_active_balance : Nat]

IsStakeList(list) ==
  IsList(list, StakeRecords) /\ Distinct(list) /\ Keys(list) \subseteq Stake

IsValidatorList(list) ==
  IsList(list, ValidatorRecords) /\ Distinct(list) /\ Keys(list) \subseteq Validator

Account(lamports, active) == [lamports |-> lamports, active |-> active]

Balance(active_balance, delinquent) ==
  [active_balance |-> active_balance,
   delinquent_upgrader_active_balance |-> delinquent, listed |-> TRUE]

\* A function with one value replaced.
Replaced(f, x, value) == [f EXCEPT ![x] = value]

(* Indices are naturals.                                                   *)
LEMMA IndexType == Index \subseteq Nat
BY ListsAssumption DEF Index

(* A record of a list of records.                                          *)
LEMMA RecordType ==
  ASSUME NEW list, NEW records, IsList(list, records), Distinct(list),
         NEW index \in Nat, InList(list, index)
  PROVE  /\ Get(list, index) \in records /\ Get(list, index).key \in Keys(list)
         /\ index \in Used(list)
         /\ RecordOf(list, Get(list, index).key) = Get(list, index)
<1>1. PICK n \in Nat : Slots(list, n, records)
  BY DEF IsList
<1>2. list.count \in Nat /\ list.count <= n /\ index < list.count
  BY <1>1, CapacityIs DEF InList
<1>3. index \in 0..(list.count - 1) /\ index \in 0..(n - 1)
  BY <1>2
<1>4. list.slot \in [0..(n - 1) -> records]
  BY <1>1 DEF Slots
<1> QED
  BY <1>3, <1>4, FindRecord DEF Get, Keys, Used

(* What a stake list says of each stake account.                           *)
LEMMA HeldType ==
  ASSUME NEW list, IsStakeList(list)
  PROVE  Held(list) \in [Stake -> [lamports : Nat, active : BOOLEAN]]
<1>1. ASSUME NEW s \in Keys(list) PROVE RecordOf(list, s) \in StakeRecords
  <2>1. PICK n \in Nat : Slots(list, n, StakeRecords)
    BY DEF IsStakeList, IsList
  <2>2. list.count \in Nat /\ list.count <= n
    BY <2>1, CapacityIs
  <2>3. PICK i \in Used(list) : list.slot[i].key = s
    BY DEF Keys, Used, Get
  <2>4. i \in Nat /\ InList(list, i)
    BY <2>2 DEF Used, InList
  <2> QED
    BY <2>3, <2>4, RecordType DEF IsStakeList, Get
<1> QED
  BY <1>1 DEF Held, StakeRecords

(* A stake record pushed.                                                  *)
LEMMA StakePush ==
  ASSUME NEW list, IsStakeList(list), HasRoom(list), NEW s \in Stake \ Keys(list),
         NEW lamports \in Nat, NEW active \in BOOLEAN,
         NEW new, new = Push(list, StakeRecord(s, lamports, active))
  PROVE  /\ IsStakeList(new) /\ Keys(new) = Keys(list) \cup {s}
         /\ Held(new) = Replaced(Held(list), s, Account(lamports, active))
<1> DEFINE item == StakeRecord(s, lamports, active)
<1>1. /\ item \in StakeRecords /\ item.key = s
      /\ item.lamports = lamports /\ item.active = active
  BY DEF StakeRecord, StakeRecords
<1> HIDE DEF item
<1>2. /\ IsList(new, StakeRecords) /\ Distinct(new) /\ Keys(new) = Keys(list) \cup {s}
      /\ RecordOf(new, s) = item
      /\ \A k \in Keys(list) : RecordOf(new, k) = RecordOf(list, k)
  BY <1>1, PushList DEF IsStakeList, item
<1>3. Held(new) = Replaced(Held(list), s, Account(lamports, active))
  BY <1>1, <1>2 DEF Held, Account, Replaced
<1> QED
  BY <1>2, <1>3 DEF IsStakeList

(* A stake record written back.                                            *)
LEMMA StakeSet ==
  ASSUME NEW list, IsStakeList(list), NEW i \in Nat, NEW s, GetChecked(list, i, s),
         NEW lamports \in Nat, NEW active \in BOOLEAN,
         NEW new, new = Set(list, i, StakeRecord(s, lamports, active))
  PROVE  /\ IsStakeList(new) /\ Keys(new) = Keys(list)
         /\ Held(new) = Replaced(Held(list), s, Account(lamports, active))
<1> DEFINE item == StakeRecord(s, lamports, active)
<1>1. InList(list, i) /\ Get(list, i).key = s
  BY DEF GetChecked
<1>2. s \in Keys(list) /\ s \in Stake
  BY <1>1, RecordType DEF IsStakeList
<1>3. /\ item \in StakeRecords /\ item.key = s
      /\ item.lamports = lamports /\ item.active = active
  BY <1>2 DEF StakeRecord, StakeRecords
<1> HIDE DEF item
<1>4. /\ IsList(new, StakeRecords) /\ Distinct(new) /\ Keys(new) = Keys(list)
      /\ \A k \in Keys(list) : RecordOf(new, k) = IF k = s THEN item ELSE RecordOf(list, k)
  BY <1>1, <1>3, SetList DEF IsStakeList, item
<1>5. Held(new) = Replaced(Held(list), s, Account(lamports, active))
  BY <1>2, <1>3, <1>4 DEF Held, Account, Replaced
<1> QED
  BY <1>4, <1>5 DEF IsStakeList

(* A stake record removed.                                                 *)
LEMMA StakeRemove ==
  ASSUME NEW list, IsStakeList(list), NEW i \in Nat, NEW s, GetChecked(list, i, s),
         NEW new, new = Remove(list, i)
  PROVE  /\ IsStakeList(new) /\ Keys(new) = Keys(list) \ {s}
         /\ Held(new) = Replaced(Held(list), s, Account(0, FALSE))
<1>1. InList(list, i) /\ Get(list, i).key = s
  BY DEF GetChecked
<1>2. s \in Keys(list) /\ s \in Stake
  BY <1>1, RecordType DEF IsStakeList
<1>3. /\ IsList(new, StakeRecords) /\ Distinct(new) /\ Keys(new) = Keys(list) \ {s}
      /\ \A k \in Keys(new) : RecordOf(new, k) = RecordOf(list, k)
  BY <1>1, RemoveList DEF IsStakeList
<1>4. Held(new) = Replaced(Held(list), s, Account(0, FALSE))
  BY <1>2, <1>3 DEF Held, Account, Replaced
<1> QED
  BY <1>3, <1>4 DEF IsStakeList

(* The record at an index, by key.                                         *)
LEMMA StakeFound ==
  ASSUME NEW list, IsStakeList(list), NEW i \in Nat, NEW s, GetChecked(list, i, s)
  PROVE  /\ s \in Stake /\ s \in Keys(list)
         /\ Get(list, i).lamports \in Nat /\ Get(list, i).active \in BOOLEAN
         /\ Held(list)[s] = Account(Get(list, i).lamports, Get(list, i).active)
<1>1. InList(list, i) /\ Get(list, i).key = s
  BY DEF GetChecked
<1>2. /\ Get(list, i) \in StakeRecords /\ s \in Keys(list) /\ s \in Stake
      /\ RecordOf(list, s) = Get(list, i)
  BY <1>1, RecordType DEF IsStakeList
<1> QED
  BY <1>2 DEF Held, Account, StakeRecords

(* A validator's record written back.                                      *)
LEMMA BalanceSet ==
  ASSUME NEW list, IsValidatorList(list), NEW j \in Nat, InList(list, j),
         NEW item \in ValidatorRecords, item.key = Get(list, j).key,
         NEW new, new = Set(list, j, item)
  PROVE  /\ IsValidatorList(new) /\ Keys(new) = Keys(list)
         /\ Balances(new) = Replaced(Balances(list), item.key,
              Balance(item.active_balance, item.delinquent_upgrader_active_balance))
         /\ \A k \in Used(list) : new.slot[k].key = list.slot[k].key
         /\ new.count = list.count
<1> DEFINE v == item.key
<1>1. v \in Keys(list) /\ v \in Validator
  BY RecordType DEF IsValidatorList
<1>2. /\ IsList(new, ValidatorRecords) /\ Distinct(new) /\ Keys(new) = Keys(list)
      /\ \A k \in Keys(list) : RecordOf(new, k) = IF k = v THEN item ELSE RecordOf(list, k)
      /\ new.count = list.count
      /\ \A i \in Used(list) : new.slot[i] = IF i = j THEN item ELSE list.slot[i]
  BY SetList DEF IsValidatorList
<1>3. Balances(new) = Replaced(Balances(list), v,
        Balance(item.active_balance, item.delinquent_upgrader_active_balance))
  BY <1>1, <1>2 DEF Balances, Balance, Replaced
<1>4. \A k \in Used(list) : new.slot[k].key = list.slot[k].key
  BY <1>2 DEF Get
<1> QED
  BY <1>2, <1>3, <1>4 DEF IsValidatorList

(* The record at an index, by key.                                         *)
LEMMA BalanceFound ==
  ASSUME NEW list, IsValidatorList(list), NEW j \in Nat, InList(list, j)
  PROVE  /\ Get(list, j) \in ValidatorRecords
         /\ Get(list, j).key \in Validator /\ Get(list, j).key \in Keys(list)
         /\ Get(list, j).active_balance \in Nat
         /\ Get(list, j).delinquent_upgrader_active_balance \in Nat
         /\ Balances(list)[Get(list, j).key]
              = Balance(Get(list, j).active_balance,
                        Get(list, j).delinquent_upgrader_active_balance)
<1>1. /\ Get(list, j) \in ValidatorRecords
      /\ Get(list, j).key \in Keys(list) /\ Get(list, j).key \in Validator
      /\ RecordOf(list, Get(list, j).key) = Get(list, j)
  BY RecordType DEF IsValidatorList
<1> QED
  BY <1>1 DEF Balances, Balance, ValidatorRecords

-----------------------------------------------------------------------------
(* The inductive invariant.                                                *)

\* No key is in a list twice, the keys are those of the accounts the program
\* holds, and the visit of the validators is within the list.
KeyedLists ==
  /\ IsStakeList(stake_list) /\ IsValidatorList(validator_list)
  /\ voter \in [Stake -> Validator \cup {None}]
  /\ duplication_flag \subseteq Validator
  /\ delinquent_upgrader \in
       [done : BOOLEAN, visited_count : Nat, delinquent_balance_left : Nat]
  /\ Keys(stake_list) = {s \in Stake : voter[s] # None}
  /\ Keys(validator_list) = duplication_flag
  /\ IsDone => delinquent_upgrader = Done
  /\ delinquent_upgrader.visited_count <= validator_list.count

\* A balance with one part changed, or both.
WithBalance(r, x) == [r EXCEPT !.active_balance = x]

WithBoth(r, x, y) ==
  [r EXCEPT !.active_balance = x, !.delinquent_upgrader_active_balance = y]

(* They change nothing else.                                               *)
LEMMA BalanceChanged ==
  ASSUME NEW a, NEW b, NEW x, NEW y
  PROVE  /\ WithBalance(Balance(a, b), x) = Balance(x, b)
         /\ WithBoth(Balance(a, b), x, y) = Balance(x, y)
<1> DEFINE on == TRUE
           Rec(m, n) == [active_balance |-> m, delinquent_upgrader_active_balance |-> n,
                         listed |-> on]
<1>1. \A m, n : Balance(m, n) = Rec(m, n)
  BY DEF Balance
<1> HIDE DEF on
<1>2. [Rec(a, b) EXCEPT !.active_balance = x] = Rec(x, b)
  OBVIOUS
<1>3. [Rec(x, b) EXCEPT !.delinquent_upgrader_active_balance = y] = Rec(x, y)
  OBVIOUS
<1> HIDE DEF Rec
<1>4. WithBoth(Rec(a, b), x, y)
        = [WithBalance(Rec(a, b), x) EXCEPT !.delinquent_upgrader_active_balance = y]
  BY DEF WithBoth, WithBalance
<1>5. WithBalance(Rec(a, b), x) = Rec(x, b)
  BY <1>2 DEF WithBalance
<1>6. WithBoth(Rec(a, b), x, y) = Rec(x, y)
  BY <1>3, <1>4, <1>5, Zenon
<1> QED
  BY <1>1, <1>5, <1>6, Zenon

(* What the upgrade has visited stays visited while the records keep their *)
(* places.                                                                 *)
LEMMA ProgressKept ==
  ASSUME KeyedLists, UNCHANGED delinquent_upgrader,
         \/ IsDone
         \/ \A j \in Used(validator_list) :
              validator_list'.slot[j].key = validator_list.slot[j].key
  PROVE  UNCHANGED Progress
<1> DEFINE visited == 0..(delinquent_upgrader.visited_count - 1)
<1>1. /\ delinquent_upgrader.visited_count \in Nat
      /\ IsDone => delinquent_upgrader.visited_count = 0
  BY DEF KeyedLists, Done
<1>2. PICK n \in Nat : Slots(validator_list, n, ValidatorRecords)
  BY DEF KeyedLists, IsValidatorList, IsList
<1>3. validator_list.count \in Nat
  BY <1>2, CapacityIs
<1>4. visited \subseteq Used(validator_list) /\ (IsDone => visited = {})
  BY <1>1, <1>3 DEF KeyedLists, Used
<1>5. \A j \in visited : ValidatorAt(j)'.key = ValidatorAt(j).key
  BY <1>4 DEF ValidatorAt, Get
<1> QED
  BY <1>5 DEF Progress, IsDone

(* An index is past those visited exactly when its validator is not among  *)
(* them.                                                                   *)
LEMMA PendingUnvisited ==
  ASSUME KeyedLists, NEW j \in Nat, NEW v, GetChecked(validator_list, j, v)
  PROVE  VisitPending(j) <=> ~Progress.done /\ v \notin Progress.visited
<1> DEFINE count   == delinquent_upgrader.visited_count
           visited == 0..(count - 1)
<1>1. count \in Nat
  BY DEF KeyedLists
<1>2. PICK n \in Nat : Slots(validator_list, n, ValidatorRecords)
  BY DEF KeyedLists, IsValidatorList, IsList
<1>3. validator_list.count \in Nat
  BY <1>2, CapacityIs
<1>4. visited \subseteq Used(validator_list)
  BY <1>1, <1>3 DEF KeyedLists, Used
<1>5. j \in Used(validator_list) /\ validator_list.slot[j].key = v
  BY <1>3 DEF GetChecked, InList, Used, Get
<1>6. v \in Progress.visited <=> \E k \in visited : validator_list.slot[k].key = v
  BY DEF Progress, ValidatorAt, Get
<1>7. (\E k \in visited : validator_list.slot[k].key = v) <=> j \in visited
  BY <1>4, <1>5 DEF KeyedLists, IsValidatorList, Distinct
<1>8. j \in visited <=> j < count
  BY <1>1
<1> QED
  BY <1>1, <1>6, <1>7, <1>8 DEF VisitPending, Progress

(* A validator's record has its key.                                       *)
LEMMA AddBalanceMoves ==
  ASSUME KeyedLists, NEW j \in Nat, InList(validator_list, j),
         NEW lamports \in Int, AddBalance(j, lamports)
  PROVE  /\ IsValidatorList(validator_list') /\ Keys(validator_list') = Keys(validator_list)
         /\ validator_list'.count = validator_list.count
         /\ \A k \in Used(validator_list) :
              validator_list'.slot[k].key = validator_list.slot[k].key
         /\ R!Balanced(ValidatorAt(j).key, lamports)
<1> DEFINE old    == ValidatorAt(j)
           v      == old.key
           more   == old.active_balance + lamports
           other  == old.delinquent_upgrader_active_balance
           record == [old EXCEPT !.active_balance = more]
<1>1. validator_list' = Set(validator_list, j, record) /\ more >= 0
  BY DEF AddBalance
<1>2. IsValidatorList(validator_list)
  BY DEF KeyedLists
<1>3. /\ old \in ValidatorRecords /\ v = Get(validator_list, j).key
      /\ v \in Keys(validator_list) /\ v \in Validator
      /\ old.active_balance \in Nat
      /\ Balances(validator_list)[v] = Balance(old.active_balance, other)
  BY <1>2, BalanceFound DEF ValidatorAt
<1>4. more \in Nat
  BY <1>1, <1>3
<1> HIDE DEF old, more
<1>5. /\ record \in ValidatorRecords /\ record.key = v /\ record.active_balance = more
      /\ record.delinquent_upgrader_active_balance = other
  BY <1>3, <1>4 DEF ValidatorRecords
<1> HIDE DEF record
<1>6. /\ IsValidatorList(validator_list') /\ Keys(validator_list') = Keys(validator_list)
      /\ Balances(validator_list') = Replaced(Balances(validator_list), record.key,
           Balance(record.active_balance, record.delinquent_upgrader_active_balance))
      /\ \A k \in Used(validator_list) :
           validator_list'.slot[k].key = validator_list.slot[k].key
      /\ validator_list'.count = validator_list.count
  <2> HIDE DEF v
  <2> QED
    BY <1>1, <1>2, <1>3, <1>5, BalanceSet
<1>7. R!Balanced(v, lamports)
  <2>1. Balances(validator_list)' = Balances(validator_list')
    BY DEF Balances
  <2> HIDE DEF v, other
  <2>2. Balances(validator_list') = [Balances(validator_list) EXCEPT ![v].active_balance = more]
    <3> DEFINE r == Balances(validator_list)[v]
    <3>1. WithBalance(r, more) = Balance(more, other)
      BY <1>3, BalanceChanged
    <3>2. Balances(validator_list') = [Balances(validator_list) EXCEPT ![v] = WithBalance(r, more)]
      BY <3>1, <1>5, <1>6 DEF Replaced
    <3> QED
      BY <3>2 DEF WithBalance
  <2>3. /\ Balances(validator_list)[v].listed
        /\ Balances(validator_list)[v].active_balance + lamports = more
    BY <1>3 DEF Balance, more, old
  <2> QED
    BY <1>1, <2>1, <2>2, <2>3 DEF R!Balanced, R!Listed
<1> QED
  BY <1>6, <1>7 DEF old

-----------------------------------------------------------------------------
(* Each call keeps the lists keyed, and is a step of Records.              *)

(* deposit_stake_account enters an account under a key that had none.      *)
LEMMA DepositEnters ==
  ASSUME KeyedLists, NEW s \in Stake, NEW v \in Validator, NEW j \in Index,
         NEW lamports \in Lamports[s], DepositStakeAccount(s, v, lamports, j)
  PROVE  KeyedLists' /\ R!Enter(s, v, lamports)
<1> DEFINE on      == TRUE
           old     == ValidatorAt(j)
           extra   == IF VisitPending(j) THEN lamports ELSE 0
           more    == old.active_balance + lamports
           counted == old.delinquent_upgrader_active_balance + extra
           record  == [old EXCEPT !.active_balance = more,
                                  !.delinquent_upgrader_active_balance = counted]
<1>1. /\ Fresh(s) /\ GetChecked(validator_list, j, v) /\ HasRoom(stake_list)
      /\ validator_list' = Set(validator_list, j, record)
      /\ stake_list' = Push(stake_list, StakeRecord(s, lamports, on))
      /\ voter' = [voter EXCEPT ![s] = v]
      /\ UNCHANGED <<duplication_flag, delinquent_upgrader>>
  BY DEF DepositStakeAccount
<1>2. on \in BOOLEAN /\ on = TRUE
  OBVIOUS
<1> HIDE DEF on
<1>3. lamports \in Nat /\ j \in Nat
  BY ListsAssumption, IndexType
<1>4. InList(validator_list, j) /\ v = Get(validator_list, j).key
  BY <1>1 DEF GetChecked
<1>5. IsStakeList(stake_list) /\ IsValidatorList(validator_list)
  BY DEF KeyedLists
<1>6. /\ old \in ValidatorRecords /\ old.key = v
      /\ old.active_balance \in Nat /\ old.delinquent_upgrader_active_balance \in Nat
      /\ v \in Keys(validator_list)
      /\ Balances(validator_list)[v]
           = Balance(old.active_balance, old.delinquent_upgrader_active_balance)
  BY <1>3, <1>4, <1>5, BalanceFound DEF ValidatorAt
<1>7. more \in Nat /\ counted \in Nat
  BY <1>3, <1>6
<1> HIDE DEF old, more, counted
<1>8. /\ record \in ValidatorRecords /\ record.key = v
      /\ record.active_balance = more
      /\ record.delinquent_upgrader_active_balance = counted
  BY <1>6, <1>7 DEF ValidatorRecords
<1> HIDE DEF record
<1>9. /\ IsValidatorList(validator_list') /\ Keys(validator_list') = Keys(validator_list)
      /\ Balances(validator_list')
           = Replaced(Balances(validator_list), v, Balance(more, counted))
      /\ \A k \in Used(validator_list) :
           validator_list'.slot[k].key = validator_list.slot[k].key
      /\ validator_list'.count = validator_list.count
  BY <1>1, <1>3, <1>4, <1>5, <1>8, BalanceSet
<1>10. s \in Stake \ Keys(stake_list)
  BY <1>1 DEF Fresh, KeyedLists
<1>11. /\ IsStakeList(stake_list') /\ Keys(stake_list') = Keys(stake_list) \cup {s}
       /\ Held(stake_list') = Replaced(Held(stake_list), s, Account(lamports, on))
  <2>1. on \in BOOLEAN
    BY <1>2
  <2>2. stake_list' = Push(stake_list, StakeRecord(s, lamports, on)) /\ HasRoom(stake_list)
    BY <1>1
  <2>3. lamports \in Nat
    BY <1>3
  <2> QED
    BY <2>1, <2>2, <2>3, <1>5, <1>10, StakePush
<1>12. voter' \in [Stake -> Validator \cup {None}] /\ voter'[s] = v /\ v # None
  BY <1>1, ListsAssumption DEF KeyedLists
<1>13. Keys(stake_list') = {a \in Stake : voter'[a] # None}
  BY <1>1, <1>11, <1>12 DEF KeyedLists
<1>14. KeyedLists'
  BY <1>1, <1>5, <1>9, <1>11, <1>12, <1>13 DEF KeyedLists, IsDone
<1>15. UNCHANGED Progress
  BY <1>1, <1>9, ProgressKept
<1>16. VisitPending(j) <=> R!Unvisited(v)
  BY <1>1, <1>3, PendingUnvisited DEF R!Unvisited
<1>17. Balances(validator_list)' = [Balances(validator_list) EXCEPT
         ![v].active_balance = @ + lamports,
         ![v].delinquent_upgrader_active_balance = @ + IF R!Unvisited(v) THEN lamports ELSE 0]
  <2> DEFINE r == Balances(validator_list)[v]
             added == IF R!Unvisited(v) THEN lamports ELSE 0
  <2>1. WithBoth(r, more, counted) = Balance(more, counted)
    BY <1>6, BalanceChanged
  <2>2. more = r.active_balance + lamports
        /\ counted = r.delinquent_upgrader_active_balance + added
    BY <1>6, <1>16 DEF Balance, more, counted
  <2>3. Balances(validator_list)' = Balances(validator_list')
    BY DEF Balances
  <2>4. Balances(validator_list)'
          = [Balances(validator_list) EXCEPT ![v] = WithBoth(r, more, counted)]
    BY <2>1, <2>3, <1>9 DEF Replaced
  <2> DEFINE b == Balances(validator_list)
             c == [b EXCEPT ![v].active_balance = more]
  <2> HIDE DEF added
  <2>5. v \in DOMAIN b
    BY DEF Balances
  <2> HIDE DEF b, r
  <2>6. c = [b EXCEPT ![v] = [b[v] EXCEPT !.active_balance = more]]
    OBVIOUS
  <2> HIDE DEF c
  <2>7. [c EXCEPT ![v].delinquent_upgrader_active_balance = counted]
          = [c EXCEPT ![v] = [c[v] EXCEPT !.delinquent_upgrader_active_balance = counted]]
    OBVIOUS
  <2>8. [c EXCEPT ![v].delinquent_upgrader_active_balance = counted]
          = [b EXCEPT ![v] = WithBoth(b[v], more, counted)]
    BY <2>5, <2>6, <2>7 DEF WithBoth
  <2> QED
    BY <2>2, <2>4, <2>8 DEF b, c, r, added
<1>18. Held(stake_list)' = [Held(stake_list) EXCEPT
         ![s] = [lamports |-> lamports, active |-> TRUE]]
  BY <1>2, <1>11 DEF Replaced, Account, Held
<1>19. voter[s] = None /\ Balances(validator_list)[v].listed
  BY <1>1, <1>6 DEF Fresh, Balance
<1> QED
  BY <1>1, <1>14, <1>15, <1>17, <1>18, <1>19 DEF R!Enter, R!Listed

(* A stake record written back next to a balance.                          *)
LEMMA RecordChanges ==
  ASSUME KeyedLists, NEW i \in Nat, NEW j \in Nat, NEW s, GetChecked(stake_list, i, s),
         InList(validator_list, j), NEW lamports \in Int, AddBalance(j, lamports),
         NEW held \in Nat, NEW active \in BOOLEAN,
         stake_list' = Set(stake_list, i, StakeRecord(s, held, active)),
         UNCHANGED <<voter, duplication_flag, delinquent_upgrader>>
  PROVE  /\ KeyedLists'
         /\ Held(stake_list)' = Replaced(Held(stake_list), s, Account(held, active))
         /\ R!Balanced(ValidatorAt(j).key, lamports)
         /\ UNCHANGED Progress
<1>1. IsStakeList(stake_list)
  BY DEF KeyedLists
<1>2. /\ IsStakeList(stake_list') /\ Keys(stake_list') = Keys(stake_list)
      /\ Held(stake_list') = Replaced(Held(stake_list), s, Account(held, active))
  BY <1>1, StakeSet
<1>3. /\ IsValidatorList(validator_list') /\ Keys(validator_list') = Keys(validator_list)
      /\ validator_list'.count = validator_list.count
      /\ \A k \in Used(validator_list) :
           validator_list'.slot[k].key = validator_list.slot[k].key
      /\ R!Balanced(ValidatorAt(j).key, lamports)
  BY AddBalanceMoves
<1>4. KeyedLists'
  BY <1>2, <1>3 DEF KeyedLists, IsDone
<1>5. UNCHANGED Progress
  BY <1>3, ProgressKept
<1>6. Held(stake_list)' = Held(stake_list')
  BY DEF Held
<1> QED
  BY <1>2, <1>3, <1>4, <1>5, <1>6

(* An active record is Active.                                             *)
LEMMA ActiveFound ==
  ASSUME KeyedLists, NEW s, NEW i \in Nat, NEW j \in Nat, ActiveAt(s, i, j)
  PROVE  /\ GetChecked(stake_list, i, s) /\ GetChecked(validator_list, j, voter[s])
         /\ InList(validator_list, j) /\ ValidatorAt(j).key = voter[s]
         /\ s \in Stake /\ StakeAt(i).lamports \in Nat
         /\ Held(stake_list)[s].lamports = StakeAt(i).lamports
         /\ R!Active(s)
<1>1. GetChecked(stake_list, i, s) /\ GetChecked(validator_list, j, voter[s])
  BY DEF ActiveAt
<1>2. InList(validator_list, j) /\ ValidatorAt(j).key = voter[s]
  BY <1>1 DEF GetChecked, ValidatorAt
<1>3. IsStakeList(stake_list)
  BY DEF KeyedLists
<1>4. /\ s \in Stake /\ s \in Keys(stake_list)
      /\ Get(stake_list, i).lamports \in Nat
      /\ Held(stake_list)[s] = Account(Get(stake_list, i).lamports, Get(stake_list, i).active)
  BY <1>1, <1>3, StakeFound
<1>5. voter[s] # None
  BY <1>4 DEF KeyedLists
<1>6. Held(stake_list)[s].active /\ Held(stake_list)[s].lamports = StakeAt(i).lamports
  BY <1>4 DEF ActiveAt, StakeAt, Account
<1> QED
  BY <1>1, <1>2, <1>4, <1>5, <1>6 DEF R!Active, StakeAt

(* update_active changes the amount of an active account.                  *)
LEMMA UpdateChanges ==
  ASSUME KeyedLists, NEW s \in Stake, NEW i \in Index, NEW j \in Index,
         NEW lamports \in Lamports[s], UpdateActive(s, lamports, i, j)
  PROVE  KeyedLists' /\ R!Change(s, lamports)
<1> DEFINE on    == TRUE
           delta == lamports - StakeAt(i).lamports
<1>1. /\ IsDone /\ ActiveAt(s, i, j) /\ AddBalance(j, delta)
      /\ stake_list' = Set(stake_list, i, StakeRecord(s, lamports, on))
      /\ UNCHANGED <<voter, duplication_flag, delinquent_upgrader>>
  BY DEF UpdateActive
<1>2. on \in BOOLEAN
  OBVIOUS
<1>3. on = TRUE
  OBVIOUS
<1> HIDE DEF on
<1>4. lamports \in Nat /\ i \in Nat /\ j \in Nat
  BY ListsAssumption, IndexType
<1>5. /\ GetChecked(stake_list, i, s) /\ InList(validator_list, j)
      /\ ValidatorAt(j).key = voter[s] /\ StakeAt(i).lamports \in Nat
      /\ Held(stake_list)[s].lamports = StakeAt(i).lamports
      /\ R!Active(s)
  BY <1>1, <1>4, ActiveFound
<1>6. delta \in Int
  BY <1>4, <1>5
<1>7. /\ KeyedLists'
      /\ Held(stake_list)' = Replaced(Held(stake_list), s, Account(lamports, on))
      /\ R!Balanced(voter[s], delta)
      /\ UNCHANGED Progress
  <2> HIDE DEF delta
  <2> QED
    BY <1>1, <1>2, <1>4, <1>5, <1>6, RecordChanges
<1>8. Held(stake_list)' = [Held(stake_list) EXCEPT ![s].lamports = lamports]
  BY <1>3, <1>5, <1>7 DEF Replaced, Account, Held, R!Active
<1>9. Progress.done
  BY <1>1 DEF Progress
<1>10. R!Balanced(voter[s], lamports - Held(stake_list)[s].lamports)
  BY <1>5, <1>7
<1> QED
  BY <1>1, <1>5, <1>7, <1>8, <1>9, <1>10 DEF R!Change

(* A whole account is deactivated.                                         *)
LEMMA DeactivateDeactivates ==
  ASSUME KeyedLists, NEW s \in Stake, NEW i \in Index, NEW j \in Index,
         DeactivateStake(s, i, j)
  PROVE  KeyedLists' /\ R!Deactivate(s)
<1> DEFINE off      == FALSE
           lamports == StakeAt(i).lamports
<1>1. /\ IsDone /\ ActiveAt(s, i, j) /\ AddBalance(j, -lamports)
      /\ stake_list' = Set(stake_list, i, StakeRecord(s, lamports, off))
      /\ UNCHANGED <<voter, duplication_flag, delinquent_upgrader>>
  BY DEF DeactivateStake
<1>2. off \in BOOLEAN
  OBVIOUS
<1>3. off = FALSE
  OBVIOUS
<1> HIDE DEF off
<1>4. i \in Nat /\ j \in Nat
  BY IndexType
<1>5. /\ GetChecked(stake_list, i, s) /\ InList(validator_list, j)
      /\ ValidatorAt(j).key = voter[s] /\ lamports \in Nat
      /\ Held(stake_list)[s].lamports = lamports
      /\ R!Active(s)
  BY <1>1, <1>4, ActiveFound
<1>6. -lamports \in Int
  BY <1>5
<1>7. /\ KeyedLists'
      /\ Held(stake_list)' = Replaced(Held(stake_list), s, Account(lamports, off))
      /\ R!Balanced(voter[s], -lamports)
      /\ UNCHANGED Progress
  <2> HIDE DEF lamports
  <2> QED
    BY <1>1, <1>2, <1>4, <1>5, <1>6, RecordChanges
<1>8. Held(stake_list)' = [Held(stake_list) EXCEPT ![s].active = FALSE]
  BY <1>3, <1>5, <1>7 DEF Replaced, Account, Held
<1>9. Progress.done
  BY <1>1 DEF Progress
<1>10. R!Balanced(voter[s], -Held(stake_list)[s].lamports)
  BY <1>5, <1>7
<1> QED
  BY <1>1, <1>5, <1>7, <1>8, <1>9, <1>10 DEF R!Deactivate

(* A part of an account is split off into one that had no record.          *)
LEMMA SplitSplits ==
  ASSUME KeyedLists, NEW s \in Stake, NEW new \in Stake, NEW i \in Index, NEW j \in Index,
         NEW lamports \in Lamports[new], DeactivateSplit(s, new, lamports, i, j)
  PROVE  KeyedLists' /\ R!Split(s, new, lamports)
<1> DEFINE on     == TRUE
           off    == FALSE
           rest   == StakeAt(i).lamports - lamports
           pushed == Push(stake_list, StakeRecord(new, lamports, off))
<1>1. /\ IsDone /\ ActiveAt(s, i, j) /\ AddBalance(j, -lamports)
      /\ lamports < StakeAt(i).lamports
      /\ Fresh(new) /\ HasRoom(stake_list)
      /\ UNCHANGED <<duplication_flag, delinquent_upgrader>>
      /\ voter' = [voter EXCEPT ![new] = voter[s]]
  BY DEF DeactivateSplit
<1>2. stake_list' = Set(pushed, i, StakeRecord(s, rest, on))
  BY DEF DeactivateSplit
<1>3. on \in BOOLEAN /\ off \in BOOLEAN
  OBVIOUS
<1>4. on = TRUE
  OBVIOUS
<1>5. off = FALSE
  OBVIOUS
<1> HIDE DEF on, off
<1>6. lamports \in Nat /\ i \in Nat /\ j \in Nat
  BY ListsAssumption, IndexType
<1>7. /\ GetChecked(stake_list, i, s) /\ InList(validator_list, j)
      /\ ValidatorAt(j).key = voter[s] /\ StakeAt(i).lamports \in Nat
      /\ Held(stake_list)[s].lamports = StakeAt(i).lamports
      /\ R!Active(s)
  BY <1>1, <1>6, ActiveFound
<1>8. rest \in Nat
  BY <1>1, <1>6, <1>7
<1>9. IsStakeList(stake_list) /\ new \in Stake \ Keys(stake_list) /\ voter[new] = None
  BY <1>1 DEF KeyedLists, Fresh
<1>10. /\ s \in Stake /\ s \in Keys(stake_list) /\ s # new
       /\ InList(stake_list, i) /\ Get(stake_list, i).key = s
  BY <1>6, <1>7, <1>9, StakeFound DEF GetChecked
<1> HIDE DEF pushed, rest
<1>11. /\ IsStakeList(pushed) /\ Keys(pushed) = Keys(stake_list) \cup {new}
       /\ Held(pushed) = Replaced(Held(stake_list), new, Account(lamports, off))
  BY <1>1, <1>3, <1>6, <1>9, StakePush DEF pushed
<1>12. GetChecked(pushed, i, s)
  <2> DEFINE item == StakeRecord(new, lamports, off)
  <2>1. item \in StakeRecords /\ item.key = new
    BY <1>3, <1>6 DEF StakeRecord, StakeRecords
  <2> HIDE DEF item
  <2>2. /\ stake_list.count \in Nat /\ pushed.count = stake_list.count + 1
        /\ \A k \in Used(stake_list) : pushed.slot[k] = stake_list.slot[k]
    BY <2>1, <1>1, <1>9, PushList DEF IsStakeList, pushed, item
  <2>3. i \in Used(stake_list) /\ i < stake_list.count
    BY <1>6, <1>10, <2>2 DEF InList, Used
  <2> QED
    BY <2>2, <2>3, <1>6, <1>10 DEF GetChecked, InList, Get
<1>13. /\ IsStakeList(stake_list') /\ Keys(stake_list') = Keys(pushed)
       /\ Held(stake_list') = Replaced(Held(pushed), s, Account(rest, on))
  BY <1>2, <1>3, <1>6, <1>8, <1>11, <1>12, StakeSet
<1>14. /\ IsValidatorList(validator_list') /\ Keys(validator_list') = Keys(validator_list)
       /\ validator_list'.count = validator_list.count
       /\ \A k \in Used(validator_list) :
            validator_list'.slot[k].key = validator_list.slot[k].key
       /\ R!Balanced(voter[s], -lamports)
  BY <1>1, <1>6, <1>7, AddBalanceMoves
<1>15. UNCHANGED Progress
  BY <1>1, <1>14, ProgressKept
<1>16. /\ voter' \in [Stake -> Validator \cup {None}] /\ voter'[new] # None
       /\ \A a \in Stake \ {new} : voter'[a] = voter[a]
  BY <1>1, <1>10 DEF KeyedLists
<1>17. Keys(stake_list') = {a \in Stake : voter'[a] # None}
  BY <1>11, <1>13, <1>16 DEF KeyedLists
<1>18. KeyedLists'
  BY <1>1, <1>13, <1>14, <1>16, <1>17 DEF KeyedLists, IsDone
<1>19. Held(stake_list)' = [Held(stake_list) EXCEPT
         ![s].lamports = @ - lamports,
         ![new] = [lamports |-> lamports, active |-> FALSE]]
  <2> DEFINE h == Held(stake_list)
  <2>1. h \in [Stake -> [lamports : Nat, active : BOOLEAN]]
    BY <1>9, HeldType
  <2>2. h[s].lamports - lamports = rest /\ h[s].active
    BY <1>7 DEF rest, R!Active
  <2>3. Held(stake_list)' = Held(stake_list')
    BY DEF Held
  <2>4. Held(stake_list)' = [[h EXCEPT ![new] = Account(lamports, off)]
                               EXCEPT ![s] = Account(rest, on)]
    BY <2>3, <1>11, <1>13 DEF Replaced
  <2> HIDE DEF h
  <2>5. [h[s] EXCEPT !.lamports = h[s].lamports - lamports] = Account(rest, on)
    <3> DEFINE a == h[s].active
    <3>1. h[s] = [lamports |-> h[s].lamports, active |-> a]
      BY <2>1, <1>10
    <3>2. a = on
      BY <2>2, <1>4
    <3> HIDE DEF a
    <3>3. [h[s] EXCEPT !.lamports = rest] = [lamports |-> rest, active |-> a]
      BY <3>1
    <3> QED
      BY <3>2, <3>3, <2>2 DEF Account
  <2>6. [h EXCEPT ![s].lamports = @ - lamports] = [h EXCEPT ![s] = Account(rest, on)]
    BY <2>5
  <2>7. Account(lamports, off) = [lamports |-> lamports, active |-> FALSE]
    BY <1>5 DEF Account
  <2>8. [[h EXCEPT ![new] = Account(lamports, off)] EXCEPT ![s] = Account(rest, on)]
          = [[h EXCEPT ![s] = Account(rest, on)] EXCEPT ![new] = Account(lamports, off)]
    BY <2>1, <1>10
  <2>9. [h EXCEPT ![s].lamports = @ - lamports,
                  ![new] = [lamports |-> lamports, active |-> FALSE]]
          = [[h EXCEPT ![s].lamports = @ - lamports]
               EXCEPT ![new] = [lamports |-> lamports, active |-> FALSE]]
    OBVIOUS
  <2> QED
    BY <2>4, <2>6, <2>7, <2>8, <2>9 DEF h
<1>20. Progress.done
  BY <1>1 DEF Progress
<1> QED
  BY <1>1, <1>7, <1>9, <1>14, <1>15, <1>18, <1>19, <1>20 DEF R!Split

(* update_deactivated: the record leaves with the account.                 *)
LEMMA CollectLeaves ==
  ASSUME KeyedLists, NEW s \in Stake, NEW i \in Index, NEW j \in Index,
         UpdateDeactivated(s, i, j)
  PROVE  KeyedLists' /\ R!Leave(s)
<1> DEFINE off == FALSE
<1>1. /\ GetChecked(stake_list, i, s) /\ GetChecked(validator_list, j, voter[s])
      /\ stake_list' = Remove(stake_list, i)
      /\ voter' = [voter EXCEPT ![s] = None]
      /\ UNCHANGED <<duplication_flag, delinquent_upgrader>>
  BY DEF UpdateDeactivated
<1>2. i \in Nat /\ j \in Nat
  BY IndexType
<1>3. IsStakeList(stake_list) /\ IsValidatorList(validator_list)
  BY DEF KeyedLists
<1>4. InList(validator_list, j) /\ ValidatorAt(j).key = voter[s]
  BY <1>1 DEF GetChecked, ValidatorAt
<1>5. /\ IsStakeList(stake_list') /\ Keys(stake_list') = Keys(stake_list) \ {s}
      /\ Held(stake_list') = Replaced(Held(stake_list), s, [lamports |-> 0, active |-> FALSE])
  BY <1>1, <1>2, <1>3, StakeRemove DEF Account
<1>6. /\ s \in Keys(stake_list) /\ StakeAt(i).lamports \in Nat /\ StakeAt(i).active \in BOOLEAN
      /\ Held(stake_list)[s].lamports = StakeAt(i).lamports
      /\ Held(stake_list)[s].active = StakeAt(i).active
  <2>1. /\ s \in Keys(stake_list)
        /\ StakeAt(i).lamports \in Nat /\ StakeAt(i).active \in BOOLEAN
        /\ Held(stake_list)[s] = Account(StakeAt(i).lamports, StakeAt(i).active)
    BY <1>1, <1>2, <1>3, StakeFound DEF StakeAt
  <2> QED
    BY <2>1 DEF Account
<1>7. /\ IsValidatorList(validator_list') /\ Keys(validator_list') = Keys(validator_list)
      /\ validator_list'.count = validator_list.count
      /\ \A k \in Used(validator_list) :
           validator_list'.slot[k].key = validator_list.slot[k].key
      /\ IF StakeAt(i).active THEN IsDone /\ R!Balanced(voter[s], -StakeAt(i).lamports)
                              ELSE UNCHANGED Balances(validator_list)
  <2>1. CASE StakeAt(i).active
    <3>1. IsDone /\ AddBalance(j, -StakeAt(i).lamports)
      BY <2>1 DEF UpdateDeactivated
    <3>2. -StakeAt(i).lamports \in Int
      BY <1>6
    <3> QED
      BY <2>1, <3>1, <3>2, <1>2, <1>4, AddBalanceMoves
  <2>2. CASE ~StakeAt(i).active
    BY <2>2, <1>3 DEF UpdateDeactivated, Balances
  <2> QED
    BY <2>1, <2>2
<1>8. UNCHANGED Progress
  BY <1>1, <1>7, ProgressKept
<1>9. /\ voter' \in [Stake -> Validator \cup {None}] /\ voter'[s] = None
      /\ \A a \in Stake \ {s} : voter'[a] = voter[a]
  BY <1>1 DEF KeyedLists
<1>10. Keys(stake_list') = {a \in Stake : voter'[a] # None}
  BY <1>5, <1>9 DEF KeyedLists
<1>11. KeyedLists'
  BY <1>1, <1>5, <1>7, <1>9, <1>10 DEF KeyedLists, IsDone
<1>12. Held(stake_list)' = [Held(stake_list) EXCEPT ![s] = R!Absent]
  BY <1>5 DEF Held, Replaced, R!Absent
<1>13. voter[s] # None /\ Balances(validator_list)[voter[s]].listed
  <2>1. Balances(validator_list)[voter[s]]
          = Balance(ValidatorAt(j).active_balance,
                    ValidatorAt(j).delinquent_upgrader_active_balance)
    BY <1>2, <1>3, <1>4, BalanceFound DEF ValidatorAt
  <2> QED
    BY <2>1, <1>6 DEF KeyedLists, Balance
<1>14. Progress.done <=> IsDone
  BY DEF Progress
<1> QED
  BY <1>1, <1>6, <1>7, <1>8, <1>11, <1>12, <1>13, <1>14 DEF R!Leave, R!Listed

(* merge_stakes: the source's lamports go to the canonical account, and    *)
(* its record leaves last.                                                 *)
LEMMA MergeMerges ==
  ASSUME KeyedLists, NEW s \in Stake, NEW i \in Index, NEW source \in Index,
         NEW j \in Index, MergeStakes(s, i, source, j)
  PROVE  KeyedLists' /\ \E v \in Validator : R!Merge(v, s)
<1> DEFINE on        == TRUE
           v         == ValidatorAt(j).key
           canonical == CanonicalStake[v]
           total     == StakeAt(i).lamports + StakeAt(source).lamports
           mid       == Set(stake_list, i, StakeRecord(canonical, total, on))
           h         == Held(stake_list)
           b         == Balances(validator_list)
<1>1. /\ IsDone /\ InList(validator_list, j) /\ AddBalance(j, 0)
      /\ GetChecked(stake_list, i, canonical) /\ StakeAt(i).active
      /\ GetChecked(stake_list, source, s) /\ StakeAt(source).active
      /\ s # canonical /\ voter[s] = v /\ voter[canonical] = v
      /\ voter' = [voter EXCEPT ![s] = None]
      /\ UNCHANGED <<duplication_flag, delinquent_upgrader>>
  BY DEF MergeStakes
<1>2. stake_list' = Remove(mid, source)
  BY DEF MergeStakes, Merged
<1>3. on \in BOOLEAN
  OBVIOUS
<1>4. on = TRUE
  OBVIOUS
<1> HIDE DEF on
<1>5. i \in Nat /\ source \in Nat /\ j \in Nat
  BY IndexType
<1>6. IsStakeList(stake_list) /\ IsValidatorList(validator_list)
  BY DEF KeyedLists
<1>7. /\ v \in Validator
      /\ b[v] = Balance(ValidatorAt(j).active_balance,
                        ValidatorAt(j).delinquent_upgrader_active_balance)
      /\ ValidatorAt(j).active_balance \in Nat
  BY <1>1, <1>5, <1>6, BalanceFound DEF ValidatorAt
<1> HIDE DEF v
<1>8. /\ canonical \in Stake /\ canonical \in Keys(stake_list)
      /\ StakeAt(i).lamports \in Nat
      /\ h[canonical] = Account(StakeAt(i).lamports, StakeAt(i).active)
  BY <1>1, <1>5, <1>6, StakeFound DEF StakeAt
<1>9. /\ s \in Keys(stake_list) /\ StakeAt(source).lamports \in Nat
      /\ h[s] = Account(StakeAt(source).lamports, StakeAt(source).active)
  BY <1>1, <1>5, <1>6, StakeFound DEF StakeAt
<1>10. total \in Nat
  BY <1>8, <1>9
<1> HIDE DEF canonical, mid, h, b
<1>11. /\ IsStakeList(mid) /\ Keys(mid) = Keys(stake_list)
       /\ Held(mid) = Replaced(h, canonical, Account(total, on))
  <2> HIDE DEF total
  <2> QED
    BY <1>1, <1>3, <1>5, <1>6, <1>10, StakeSet DEF mid, h
<1>12. GetChecked(mid, source, s)
  <2> DEFINE item == StakeRecord(canonical, total, on)
  <2>1. /\ InList(stake_list, i) /\ Get(stake_list, i).key = canonical
        /\ InList(stake_list, source) /\ Get(stake_list, source).key = s
    BY <1>1 DEF GetChecked
  <2>2. item \in StakeRecords /\ item.key = canonical
    BY <1>3, <1>8, <1>10 DEF StakeRecord, StakeRecords
  <2>3. mid = Set(stake_list, i, item)
    BY DEF mid
  <2> HIDE DEF item
  <2>4. /\ mid.count = stake_list.count
        /\ \A k \in Used(stake_list) :
             mid.slot[k] = IF k = i THEN item ELSE stake_list.slot[k]
    BY <2>1, <2>2, <2>3, <1>5, <1>6, SetList DEF IsStakeList
  <2>5. source \in Used(stake_list)
    BY <2>1, <1>5, <1>6, RecordType DEF IsStakeList
  <2>6. source # i
    BY <2>1, <1>1
  <2> QED
    BY <2>1, <2>4, <2>5, <2>6 DEF GetChecked, InList, Get
<1>13. /\ IsStakeList(stake_list') /\ Keys(stake_list') = Keys(mid) \ {s}
       /\ Held(stake_list') = Replaced(Held(mid), s, [lamports |-> 0, active |-> FALSE])
  BY <1>2, <1>5, <1>11, <1>12, StakeRemove DEF Account
<1>14. /\ IsValidatorList(validator_list') /\ Keys(validator_list') = Keys(validator_list)
       /\ validator_list'.count = validator_list.count
       /\ \A k \in Used(validator_list) :
            validator_list'.slot[k].key = validator_list.slot[k].key
       /\ R!Balanced(v, 0)
  BY <1>1, <1>5, AddBalanceMoves DEF v
<1>15. UNCHANGED Progress
  BY <1>1, <1>14, ProgressKept
<1>16. /\ voter' \in [Stake -> Validator \cup {None}] /\ voter'[s] = None
       /\ \A a \in Stake \ {s} : voter'[a] = voter[a]
  BY <1>1 DEF KeyedLists
<1>17. Keys(stake_list') = {a \in Stake : voter'[a] # None}
  BY <1>11, <1>13, <1>16 DEF KeyedLists
<1>18. KeyedLists'
  BY <1>1, <1>13, <1>14, <1>16, <1>17 DEF KeyedLists, IsDone
<1>19. UNCHANGED Balances(validator_list)
  <2> DEFINE a == ValidatorAt(j).active_balance
             d == ValidatorAt(j).delinquent_upgrader_active_balance
  <2>1. a + 0 = a /\ b[v].active_balance = a
    BY <1>7 DEF Balance
  <2>2. WithBalance(b[v], a) = b[v]
    BY <1>7, BalanceChanged
  <2>3. Balances(validator_list)' = [b EXCEPT ![v].active_balance = b[v].active_balance + 0]
    BY <1>14 DEF R!Balanced, b
  <2>4. Balances(validator_list)' = [b EXCEPT ![v] = WithBalance(b[v], a)]
    BY <2>1, <2>3 DEF WithBalance
  <2>5. [b EXCEPT ![v] = b[v]] = b
    BY DEF b, Balances
  <2> QED
    BY <2>2, <2>4, <2>5 DEF b
<1>20. Held(stake_list)' = [h EXCEPT ![canonical].lamports = @ + h[s].lamports,
                                     ![s] = R!Absent]
  <2>1. Held(stake_list)' = [[h EXCEPT ![canonical] = Account(total, on)]
                               EXCEPT ![s] = R!Absent]
    BY <1>11, <1>13 DEF Held, Replaced, R!Absent
  <2>2. [h[canonical] EXCEPT !.lamports = h[canonical].lamports + h[s].lamports]
          = Account(total, on)
    <3> DEFINE a == StakeAt(i).active
    <3>1. h[canonical] = [lamports |-> StakeAt(i).lamports, active |-> a]
      BY <1>8 DEF Account
    <3>2. a = on
      BY <1>1, <1>4
    <3>3. h[canonical].lamports + h[s].lamports = total
      BY <1>8, <1>9 DEF Account
    <3> HIDE DEF a, total
    <3>4. [h[canonical] EXCEPT !.lamports = total] = [lamports |-> total, active |-> a]
      BY <3>1
    <3> QED
      BY <3>2, <3>3, <3>4 DEF Account
  <2> HIDE DEF total
  <2>3. [h EXCEPT ![canonical].lamports = @ + h[s].lamports]
          = [h EXCEPT ![canonical] = Account(total, on)]
    BY <2>2
  <2>4. [h EXCEPT ![canonical].lamports = @ + h[s].lamports, ![s] = R!Absent]
          = [[h EXCEPT ![canonical].lamports = @ + h[s].lamports] EXCEPT ![s] = R!Absent]
    OBVIOUS
  <2> QED
    BY <2>1, <2>3, <2>4
<1>21. \A a \in {s, canonical} : R!Active(a) /\ voter[a] = v
  <2>1. h[s].active /\ h[canonical].active
    BY <1>1, <1>8, <1>9 DEF Account
  <2>2. voter[s] # None /\ voter[canonical] # None
    BY <1>8, <1>9 DEF KeyedLists
  <2> QED
    BY <2>1, <2>2, <1>1 DEF R!Active, h
<1>22. Progress.done
  BY <1>1 DEF Progress
<1>23. R!Merge(v, s)
  BY <1>1, <1>8, <1>15, <1>19, <1>20, <1>21, <1>22 DEF R!Merge, h, canonical
<1> QED
  BY <1>7, <1>18, <1>23

(* create_canonical_stake: the record moves to the canonical address.      *)
LEMMA CreateRenames ==
  ASSUME KeyedLists, NEW s \in Stake, NEW i \in Index, NEW j \in Index,
         CreateCanonicalStake(s, i, j)
  PROVE  KeyedLists' /\ \E v \in Validator : R!Rename(v, s)
<1> DEFINE on        == TRUE
           v         == ValidatorAt(j).key
           canonical == CanonicalStake[v]
           lamports  == StakeAt(i).lamports
           pushed    == Push(stake_list, StakeRecord(canonical, lamports, on))
           h         == Held(stake_list)
<1>1. /\ IsDone /\ InList(validator_list, j)
      /\ GetChecked(stake_list, i, s) /\ StakeAt(i).active
      /\ HasRoom(stake_list)
      /\ canonical \in Stake /\ voter[canonical] = None /\ voter[s] = v
      /\ voter' = [voter EXCEPT ![canonical] = v, ![s] = None]
      /\ UNCHANGED <<validator_list, duplication_flag, delinquent_upgrader>>
  BY DEF CreateCanonicalStake
<1>2. stake_list' = Remove(pushed, i)
  BY DEF CreateCanonicalStake
<1>3. on \in BOOLEAN
  OBVIOUS
<1>4. on = TRUE
  OBVIOUS
<1> HIDE DEF on
<1>5. i \in Nat /\ j \in Nat
  BY IndexType
<1>6. IsStakeList(stake_list) /\ IsValidatorList(validator_list)
  BY DEF KeyedLists
<1>7. v \in Validator
  BY <1>1, <1>5, <1>6, BalanceFound DEF ValidatorAt
<1> HIDE DEF v
<1>8. /\ s \in Keys(stake_list) /\ lamports \in Nat
      /\ h[s] = Account(lamports, StakeAt(i).active)
  BY <1>1, <1>5, <1>6, StakeFound DEF StakeAt
<1>9. canonical \in Stake \ Keys(stake_list) /\ canonical # s /\ v # None
  BY <1>1, <1>7, <1>8, ListsAssumption DEF KeyedLists
<1> HIDE DEF canonical, lamports, pushed, h
<1>10. /\ IsStakeList(pushed) /\ Keys(pushed) = Keys(stake_list) \cup {canonical}
       /\ Held(pushed) = Replaced(h, canonical, Account(lamports, on))
  BY <1>1, <1>3, <1>6, <1>8, <1>9, StakePush DEF pushed, h
<1>11. GetChecked(pushed, i, s)
  <2> DEFINE item == StakeRecord(canonical, lamports, on)
  <2>1. item \in StakeRecords /\ item.key = canonical
    BY <1>3, <1>8, <1>9 DEF StakeRecord, StakeRecords
  <2>2. pushed = Push(stake_list, item)
    BY DEF pushed
  <2> HIDE DEF item
  <2>3. /\ stake_list.count \in Nat /\ pushed.count = stake_list.count + 1
        /\ \A k \in Used(stake_list) : pushed.slot[k] = stake_list.slot[k]
    BY <2>1, <2>2, <1>1, <1>6, <1>9, PushList DEF IsStakeList
  <2>4. i < stake_list.count /\ Get(stake_list, i).key = s
    BY <1>1 DEF GetChecked, InList
  <2>5. i \in Used(stake_list)
    BY <2>3, <2>4, <1>5 DEF Used
  <2> QED
    BY <2>3, <2>4, <2>5, <1>5 DEF GetChecked, InList, Get
<1>12. /\ IsStakeList(stake_list') /\ Keys(stake_list') = Keys(pushed) \ {s}
       /\ Held(stake_list') = Replaced(Held(pushed), s, [lamports |-> 0, active |-> FALSE])
  BY <1>2, <1>5, <1>10, <1>11, StakeRemove DEF Account
<1>13. UNCHANGED <<Progress, Balances(validator_list)>>
  BY <1>1 DEF Progress, IsDone, ValidatorAt, Balances
<1>14. /\ voter' \in [Stake -> Validator \cup {None}]
       /\ voter'[s] = None /\ voter'[canonical] # None
       /\ \A a \in Stake \ {s, canonical} : voter'[a] = voter[a]
  BY <1>1, <1>7, <1>9 DEF KeyedLists
<1>15. Keys(stake_list') = {a \in Stake : voter'[a] # None}
  BY <1>9, <1>10, <1>12, <1>14 DEF KeyedLists
<1>16. KeyedLists'
  BY <1>1, <1>12, <1>14, <1>15 DEF KeyedLists, IsDone
<1>17. Held(stake_list)' = [h EXCEPT ![canonical] = h[s], ![s] = R!Absent]
  <2>1. h[s] = Account(lamports, on)
    <3> DEFINE a == StakeAt(i).active
    <3>1. a = on
      BY <1>1, <1>4
    <3> HIDE DEF a
    <3> QED
      BY <3>1, <1>8 DEF a
  <2> QED
    BY <2>1, <1>10, <1>12 DEF Held, Replaced, R!Absent
<1>18. R!Active(s)
  BY <1>1, <1>8 DEF R!Active, KeyedLists, Account, h
<1>19. Progress.done
  BY <1>1 DEF Progress
<1>20. R!Rename(v, s)
  BY <1>1, <1>9, <1>13, <1>17, <1>18, <1>19 DEF R!Rename, canonical, h
<1> QED
  BY <1>7, <1>16, <1>20

(* add_validator.                                                          *)
LEMMA AddAdds ==
  ASSUME KeyedLists, NEW v \in Validator, AddValidator(v)
  PROVE  KeyedLists' /\ R!AddValidator(v)
<1> DEFINE item == ValidatorRecord(v)
<1>1. /\ IsDone /\ v \notin duplication_flag /\ HasRoom(validator_list)
      /\ validator_list' = Push(validator_list, item)
      /\ duplication_flag' = duplication_flag \cup {v}
      /\ UNCHANGED <<stake_list, voter, delinquent_upgrader>>
  BY DEF AddValidator
<1>2. /\ item \in ValidatorRecords /\ item.key = v
      /\ item.active_balance = 0 /\ item.delinquent_upgrader_active_balance = 0
  BY DEF ValidatorRecord, ValidatorRecords
<1> HIDE DEF item
<1>3. v \notin Keys(validator_list)
  BY <1>1 DEF KeyedLists
<1>4. /\ IsList(validator_list', ValidatorRecords) /\ Distinct(validator_list')
      /\ Keys(validator_list') = Keys(validator_list) \cup {v}
      /\ RecordOf(validator_list', v) = item
      /\ \A k \in Keys(validator_list) :
           RecordOf(validator_list', k) = RecordOf(validator_list, k)
      /\ validator_list.count \in Nat
      /\ validator_list'.count = validator_list.count + 1
  BY <1>1, <1>2, <1>3, PushList DEF KeyedLists, IsValidatorList
<1>5. IsDone' /\ delinquent_upgrader.visited_count \in Nat
  BY <1>1 DEF IsDone, KeyedLists
<1>6. KeyedLists'
  BY <1>1, <1>4, <1>5 DEF KeyedLists, IsValidatorList
<1>7. UNCHANGED <<Progress, Held(stake_list)>>
  BY <1>1, ProgressKept DEF Held
<1>8. /\ Balances(validator_list)[v] = [active_balance |-> 0,
           delinquent_upgrader_active_balance |-> 0, listed |-> FALSE]
      /\ Balances(validator_list)' = Replaced(Balances(validator_list), v, Balance(0, 0))
  BY <1>2, <1>3, <1>4 DEF Balances, Balance, Replaced
<1>9. Balances(validator_list)' = [Balances(validator_list) EXCEPT ![v].listed = TRUE]
  <2> DEFINE r   == Balances(validator_list)[v]
             on  == TRUE
             off == FALSE
  <2>1. r = [active_balance |-> 0, delinquent_upgrader_active_balance |-> 0, listed |-> off]
    BY <1>8
  <2>2. Balance(0, 0)
          = [active_balance |-> 0, delinquent_upgrader_active_balance |-> 0, listed |-> on]
    BY DEF Balance
  <2> HIDE DEF r, on, off
  <2>3. [r EXCEPT !.listed = on] = Balance(0, 0)
    BY <2>1, <2>2
  <2>4. Balances(validator_list)' = [Balances(validator_list) EXCEPT ![v] = [r EXCEPT !.listed = on]]
    BY <2>3, <1>8 DEF Replaced
  <2> QED
    BY <2>4 DEF r, on
<1>10. Progress.done /\ ~Balances(validator_list)[v].listed
  BY <1>1, <1>8 DEF Progress
<1> QED
  BY <1>1, <1>6, <1>7, <1>9, <1>10 DEF R!AddValidator, R!Listed

(* remove_validator.                                                       *)
LEMMA RemoveRemoves ==
  ASSUME KeyedLists, NEW v \in Validator, NEW j \in Index, RemoveValidator(v, j)
  PROVE  KeyedLists' /\ R!RemoveValidator(v)
<1>1. /\ GetChecked(validator_list, j, v) /\ v \in duplication_flag
      /\ IsDone /\ ValidatorAt(j).active_balance = 0
      /\ validator_list' = Remove(validator_list, j)
      /\ duplication_flag' = duplication_flag \ {v}
      /\ UNCHANGED <<stake_list, voter, delinquent_upgrader>>
  BY DEF RemoveValidator, Removable
<1>2. j \in Nat
  BY IndexType
<1>3. InList(validator_list, j) /\ Get(validator_list, j).key = v
  BY <1>1 DEF GetChecked
<1>4. /\ IsList(validator_list', ValidatorRecords) /\ Distinct(validator_list')
      /\ Keys(validator_list') = Keys(validator_list) \ {v}
      /\ \A k \in Keys(validator_list') :
           RecordOf(validator_list', k) = RecordOf(validator_list, k)
      /\ validator_list'.count \in Nat
  BY <1>1, <1>2, <1>3, RemoveList DEF KeyedLists, IsValidatorList
<1>5. IsDone' /\ delinquent_upgrader.visited_count = 0
  BY <1>1 DEF IsDone, KeyedLists, Done
<1>6. KeyedLists'
  BY <1>1, <1>4, <1>5 DEF KeyedLists, IsValidatorList
<1>7. UNCHANGED <<Progress, Held(stake_list)>>
  BY <1>1, ProgressKept DEF Held
<1>8. /\ v \in Keys(validator_list)
      /\ Balances(validator_list)[v].active_balance = 0
      /\ Balances(validator_list)[v].listed
  <2>1. /\ v \in Keys(validator_list)
        /\ Balances(validator_list)[v]
             = Balance(ValidatorAt(j).active_balance,
                       ValidatorAt(j).delinquent_upgrader_active_balance)
    BY <1>2, <1>3, BalanceFound DEF KeyedLists, ValidatorAt
  <2> QED
    BY <2>1, <1>1 DEF Balance
<1>9. Balances(validator_list)' = [Balances(validator_list) EXCEPT ![v] = R!NoBalance]
  BY <1>4 DEF Balances, R!NoBalance
<1>10. Progress.done
  BY <1>1 DEF Progress
<1> QED
  BY <1>1, <1>6, <1>7, <1>8, <1>9, <1>10 DEF R!RemoveValidator, R!Listed

(* A change of an account's length.                                        *)
LEMMA ReallocStutters ==
  ASSUME KeyedLists,
         \/ \E capacity \in StakeCapacity : ReallocStakeList(capacity)
         \/ \E capacity \in ValidatorCapacity : ReallocValidatorList(capacity)
  PROVE  KeyedLists' /\ UNCHANGED R!vars
<1>1. ASSUME NEW capacity \in StakeCapacity, ReallocStakeList(capacity)
      PROVE  KeyedLists' /\ UNCHANGED R!vars
  <2> DEFINE blank == BlankStake
  <2>1. capacity \in Nat /\ blank \in StakeRecords
    BY ListsAssumption DEF BlankStake, StakeRecord, StakeRecords
  <2>2. /\ Fits(stake_list, capacity) /\ stake_list' = Resized(stake_list, capacity, blank)
        /\ UNCHANGED <<validator_list, voter, duplication_flag, delinquent_upgrader>>
    BY <1>1 DEF ReallocStakeList
  <2>3. /\ IsStakeList(stake_list') /\ Keys(stake_list') = Keys(stake_list)
        /\ \A k \in Keys(stake_list) : RecordOf(stake_list', k) = RecordOf(stake_list, k)
    BY <2>1, <2>2, ResizedList DEF KeyedLists, IsStakeList
  <2>4. UNCHANGED <<Held(stake_list), Balances(validator_list), Progress>>
    BY <2>2, <2>3 DEF Held, Balances, Progress, IsDone, ValidatorAt
  <2>5. KeyedLists'
    BY <2>2, <2>3 DEF KeyedLists, IsDone
  <2> QED
    BY <2>2, <2>4, <2>5 DEF R!vars
<1>2. ASSUME NEW capacity \in ValidatorCapacity, ReallocValidatorList(capacity)
      PROVE  KeyedLists' /\ UNCHANGED R!vars
  <2> DEFINE blank == BlankValidator
  <2>1. capacity \in Nat /\ blank \in ValidatorRecords
    BY ListsAssumption DEF BlankValidator, ValidatorRecord, ValidatorRecords
  <2>2. /\ Fits(validator_list, capacity)
        /\ validator_list' = Resized(validator_list, capacity, blank)
        /\ UNCHANGED <<stake_list, voter, duplication_flag, delinquent_upgrader>>
    BY <1>2 DEF ReallocValidatorList
  <2>3. /\ IsValidatorList(validator_list') /\ Keys(validator_list') = Keys(validator_list)
        /\ validator_list'.count = validator_list.count
        /\ \A k \in Keys(validator_list) :
             RecordOf(validator_list', k) = RecordOf(validator_list, k)
        /\ \A i \in Used(validator_list) : validator_list'.slot[i] = validator_list.slot[i]
    BY <2>1, <2>2, ResizedList DEF KeyedLists, IsValidatorList
  <2>4. UNCHANGED <<Held(stake_list), Balances(validator_list)>>
    BY <2>2, <2>3 DEF Held, Balances
  <2>5. UNCHANGED Progress
    BY <2>2, <2>3, ProgressKept
  <2>6. KeyedLists'
    BY <2>2, <2>3 DEF KeyedLists, IsDone
  <2> QED
    BY <2>2, <2>4, <2>5, <2>6 DEF R!vars
<1> QED
  BY <1>1, <1>2

(* A call of finalize_delinquent_upgrade, its local values named.          *)
FinalizeCall(end, batch, excess, left) ==
  LET first == delinquent_upgrader.visited_count
  IN /\ end \in Nat /\ first <= end /\ end <= validator_list.count
     /\ batch = first..(end - 1)
     /\ excess = [j \in batch |-> ValidatorAt(j).active_balance
                                    - ValidatorAt(j).delinquent_upgrader_active_balance]
     /\ left = delinquent_upgrader.delinquent_balance_left - Sum(excess)
     /\ ~IsDone
     /\ \A j \in batch : excess[j] >= 0
     /\ left >= 0
     /\ validator_list' = [validator_list EXCEPT !.slot =
          [j \in DOMAIN validator_list.slot |->
             IF j \in batch
             THEN [ValidatorAt(j) EXCEPT !.active_balance = @ - excess[j],
                                         !.delinquent_upgrader_active_balance = 0]
             ELSE ValidatorAt(j)]]
     /\ IF end = validator_list.count
        THEN left = 0 /\ delinquent_upgrader' = Done
        ELSE delinquent_upgrader' =
               [done |-> FALSE, visited_count |-> end, delinquent_balance_left |-> left]
     /\ UNCHANGED <<stake_list, voter, duplication_flag>>

(* The number of validators and the place the visit has come to.           *)
LEMMA VisitPlace ==
  ASSUME KeyedLists
  PROVE  /\ validator_list.count \in Nat
         /\ delinquent_upgrader.visited_count \in Nat
         /\ delinquent_upgrader.visited_count <= validator_list.count
         /\ delinquent_upgrader.delinquent_balance_left \in Nat
<1>1. PICK n \in Nat : Slots(validator_list, n, ValidatorRecords)
  BY DEF KeyedLists, IsValidatorList, IsList
<1>2. validator_list.count \in Nat
  BY <1>1, CapacityIs
<1> QED
  BY <1>2 DEF KeyedLists

LEMMA FinalizeCalls ==
  ASSUME KeyedLists, NEW max_validators \in Index, FinalizeDelinquentUpgrade(max_validators)
  PROVE  \E end, batch, excess, left : FinalizeCall(end, batch, excess, left)
<1> DEFINE first   == delinquent_upgrader.visited_count
           end     == IF first + max_validators <= validator_list.count
                      THEN first + max_validators ELSE validator_list.count
           batch   == first..(end - 1)
           excess  == [j \in batch |-> ValidatorAt(j).active_balance
                                         - ValidatorAt(j).delinquent_upgrader_active_balance]
           left    == delinquent_upgrader.delinquent_balance_left - Sum(excess)
<1>1. max_validators \in Nat
  BY IndexType
<1>2. end \in Nat /\ first <= end /\ end <= validator_list.count
  BY <1>1, VisitPlace
<1>3. FinalizeCall(end, batch, excess, left)
  BY <1>2, Zenon DEF FinalizeCall, FinalizeDelinquentUpgrade
<1> QED
  BY <1>3, Zenon

(* A batch takes the excess of its validators away, and moves none.        *)
LEMMA FinalizeBatch ==
  ASSUME KeyedLists, NEW end, NEW batch, NEW excess, NEW left,
         FinalizeCall(end, batch, excess, left)
  PROVE  /\ KeyedLists'
         /\ batch \subseteq Used(validator_list) /\ IsFiniteSet(batch)
         /\ excess \in [batch -> Nat] /\ left \in Nat
         /\ validator_list'.count = validator_list.count
         /\ Used(validator_list') = Used(validator_list)
         /\ \A j \in Used(validator_list) :
              /\ validator_list'.slot[j].key = validator_list.slot[j].key
              /\ j \notin batch => validator_list'.slot[j] = validator_list.slot[j]
         /\ \A j \in batch :
              /\ validator_list'.slot[j].active_balance
                   = validator_list.slot[j].delinquent_upgrader_active_balance
              /\ validator_list'.slot[j].delinquent_upgrader_active_balance = 0
<1> DEFINE old   == validator_list
           new   == validator_list'
           first == delinquent_upgrader.visited_count
<1>1. /\ end \in Nat /\ first <= end /\ end <= old.count
      /\ batch = first..(end - 1)
      /\ excess = [j \in batch |-> old.slot[j].active_balance
                                     - old.slot[j].delinquent_upgrader_active_balance]
      /\ left = delinquent_upgrader.delinquent_balance_left - Sum(excess)
      /\ ~IsDone
      /\ \A j \in batch : excess[j] >= 0
      /\ left >= 0
      /\ UNCHANGED <<stake_list, voter, duplication_flag>>
  BY DEF FinalizeCall, ValidatorAt, Get
<1>2. IF end = old.count
      THEN delinquent_upgrader' = Done
      ELSE delinquent_upgrader' =
             [done |-> FALSE, visited_count |-> end, delinquent_balance_left |-> left]
  BY DEF FinalizeCall
<1>3. /\ old.count \in Nat /\ first \in Nat /\ first <= old.count
      /\ delinquent_upgrader.delinquent_balance_left \in Nat
  BY VisitPlace
<1>4. PICK n \in Nat : Slots(old, n, ValidatorRecords)
  BY DEF KeyedLists, IsValidatorList, IsList
<1>5. /\ old.count <= n
      /\ old.slot \in [0..(n - 1) -> ValidatorRecords]
      /\ old = [slot |-> old.slot, count |-> old.count]
  BY <1>4, CapacityIs DEF Slots
<1>6. IsValidatorList(old) /\ Distinct(old) /\ Keys(old) \subseteq Validator
  BY DEF KeyedLists, IsValidatorList
<1>7. batch \subseteq Used(old) /\ Used(old) \subseteq 0..(n - 1)
  BY <1>1, <1>3, <1>5 DEF Used
<1>8. IsFiniteSet(batch)
  <2>1. \A k, m \in Nat : IsFiniteSet(k..(m - 1))
    BY FS_Interval
  <2> QED
    BY <2>1, <1>1, <1>3, Zenon
<1>9. \A j \in Used(old) :
        /\ old.slot[j] \in ValidatorRecords
        /\ old.slot[j].active_balance \in Nat
        /\ old.slot[j].delinquent_upgrader_active_balance \in Nat
  BY <1>5, <1>7 DEF ValidatorRecords
<1>10. \A j \in batch : excess[j] \in Nat
  <2> TAKE j \in batch
  <2>1. /\ excess[j] = old.slot[j].active_balance
                         - old.slot[j].delinquent_upgrader_active_balance
        /\ excess[j] >= 0
    BY <1>1
  <2>2. /\ old.slot[j].active_balance \in Nat
        /\ old.slot[j].delinquent_upgrader_active_balance \in Nat
    BY <1>7, <1>9
  <2> QED
    BY <2>1, <2>2
<1>11. excess \in [batch -> Nat]
  BY <1>1, <1>10
<1>12. left \in Nat
  BY <1>1, <1>3, <1>8, <1>11, SumType
<1>13. /\ new.count = old.count /\ new = [slot |-> new.slot, count |-> new.count]
       /\ new.slot = [j \in 0..(n - 1) |->
            IF j \in batch
            THEN [old.slot[j] EXCEPT !.active_balance = @ - excess[j],
                                     !.delinquent_upgrader_active_balance = 0]
            ELSE old.slot[j]]
  <2>1. new = [old EXCEPT !.slot =
          [j \in DOMAIN old.slot |->
             IF j \in batch
             THEN [old.slot[j] EXCEPT !.active_balance = @ - excess[j],
                                      !.delinquent_upgrader_active_balance = 0]
             ELSE old.slot[j]]]
    BY DEF FinalizeCall, ValidatorAt, Get
  <2>2. DOMAIN old.slot = 0..(n - 1)
    BY <1>5
  <2> QED
    BY <2>1, <2>2, <1>5
<1>14. \A j \in Used(old) \ batch : new.slot[j] = old.slot[j]
  BY <1>7, <1>13
<1>15. ASSUME NEW j \in batch
       PROVE  /\ new.slot[j] \in ValidatorRecords /\ new.slot[j].key = old.slot[j].key
              /\ new.slot[j].active_balance
                   = old.slot[j].delinquent_upgrader_active_balance
              /\ new.slot[j].delinquent_upgrader_active_balance = 0
  <2> DEFINE m == old.slot[j].active_balance - excess[j]
  <2>1. old.slot[j] \in ValidatorRecords /\ j \in 0..(n - 1)
    BY <1>7, <1>9
  <2>2. m = old.slot[j].delinquent_upgrader_active_balance /\ m \in Nat
    <3>1. excess[j] = old.slot[j].active_balance
                        - old.slot[j].delinquent_upgrader_active_balance
      BY <1>1
    <3>2. /\ old.slot[j].active_balance \in Nat
          /\ old.slot[j].delinquent_upgrader_active_balance \in Nat
      BY <1>7, <1>9
    <3> QED
      BY <3>1, <3>2
  <2>3. new.slot[j] = [old.slot[j] EXCEPT !.active_balance = m,
                                          !.delinquent_upgrader_active_balance = 0]
    BY <2>1, <1>13
  <2> HIDE DEF m
  <2> DEFINE r == [old.slot[j] EXCEPT !.active_balance = m]
  <2>4. /\ r \in ValidatorRecords /\ r.key = old.slot[j].key /\ r.active_balance = m
        /\ new.slot[j] = [r EXCEPT !.delinquent_upgrader_active_balance = 0]
    BY <2>1, <2>2, <2>3 DEF ValidatorRecords
  <2> HIDE DEF r
  <2>5. /\ new.slot[j] \in ValidatorRecords /\ new.slot[j].key = r.key
        /\ new.slot[j].active_balance = r.active_balance
        /\ new.slot[j].delinquent_upgrader_active_balance = 0
    BY <2>4 DEF ValidatorRecords
  <2> QED
    BY <2>2, <2>4, <2>5
<1>16. Used(new) = Used(old) /\ \A j \in Used(old) : new.slot[j].key = old.slot[j].key
  BY <1>13, <1>14, <1>15 DEF Used
<1>17. Slots(new, n, ValidatorRecords)
  <2>1. \A j \in 0..(n - 1) : new.slot[j] \in ValidatorRecords
    <3> TAKE j \in 0..(n - 1)
    <3>1. CASE j \in batch
      BY <3>1, <1>15
    <3>2. CASE j \notin batch
      BY <3>2, <1>5, <1>13
    <3> QED
      BY <3>1, <3>2
  <2>2. new.slot \in [0..(n - 1) -> ValidatorRecords]
    BY <2>1, <1>13
  <2>3. new.count \in 0..n
    <3>1. old.count \in 0..n
      BY <1>3, <1>5
    <3> QED
      BY <3>1, <1>13
  <2> QED
    BY <2>2, <2>3, <1>13 DEF Slots
<1>18. Distinct(new) /\ Keys(new) = Keys(old)
  <2>1. Distinct(new)
    BY <1>6, <1>16 DEF Distinct
  <2>2. Keys(new) = {new.slot[j].key : j \in Used(old)}
    BY <1>16 DEF Keys, Get, Used
  <2>3. Keys(old) = {old.slot[j].key : j \in Used(old)}
    BY DEF Keys, Get, Used
  <2> QED
    BY <2>1, <2>2, <2>3, <1>16
<1>19. IsValidatorList(new)
  BY <1>6, <1>17, <1>18 DEF IsValidatorList, IsList
<1>20. /\ delinquent_upgrader' \in
            [done : BOOLEAN, visited_count : Nat, delinquent_balance_left : Nat]
       /\ IsDone' => delinquent_upgrader' = Done
       /\ delinquent_upgrader'.visited_count <= old.count
  <2>1. CASE end = old.count
    <3>1. delinquent_upgrader' = Done
      BY <2>1, <1>2
    <3> QED
      BY <3>1, <1>3 DEF Done
  <2>2. CASE end # old.count
    <3>1. delinquent_upgrader' =
            [done |-> FALSE, visited_count |-> end, delinquent_balance_left |-> left]
      BY <2>2, <1>2
    <3>2. end \in Nat /\ end <= old.count
      BY <1>1
    <3> QED
      BY <3>1, <3>2, <1>12 DEF IsDone
  <2> QED
    BY <2>1, <2>2
<1>21. KeyedLists'
  BY <1>1, <1>13, <1>18, <1>19, <1>20 DEF KeyedLists
<1> QED
  BY <1>7, <1>8, <1>11, <1>12, <1>13, <1>14, <1>15, <1>16, <1>21

(* The sum is one operator in both modules.                                *)
LEMMA SameSum == \A f : R!Sum(f) = Sum(f)
<1>1. \A S : R!Cardinality(S) = Cardinality(S)
  BY DEF R!Cardinality, Cardinality
<1> QED
  BY <1>1 DEF R!Sum, R!Points, Sum, Points

\* The validators of a batch, and the excess of each.
BatchKeys(batch) == {validator_list.slot[j].key : j \in batch}

BatchTaken(batch) ==
  [v \in BatchKeys(batch) |->
     Balances(validator_list)[v].active_balance
       - Balances(validator_list)[v].delinquent_upgrader_active_balance]

(* The excess of a batch, by key: the same sum.                            *)
LEMMA BatchExcess ==
  ASSUME KeyedLists, NEW end, NEW batch, NEW excess, NEW left,
         FinalizeCall(end, batch, excess, left)
  PROVE  /\ \A j \in batch : BatchTaken(batch)[validator_list.slot[j].key] = excess[j]
         /\ R!Sum(BatchTaken(batch)) = Sum(excess)
<1> DEFINE old   == validator_list
           key   == [j \in batch |-> old.slot[j].key]
           keys  == BatchKeys(batch)
           taken == BatchTaken(batch)
<1>0. keys = {old.slot[j].key : j \in batch}
  BY DEF BatchKeys
<1>1. /\ batch \subseteq Used(old) /\ IsFiniteSet(batch) /\ excess \in [batch -> Nat]
  BY FinalizeBatch
<1>2. key \in Bijection(batch, keys)
  BY <1>0, <1>1 DEF KeyedLists, IsValidatorList, Distinct, Bijection, Injection, Surjection,
              IsInjective
<1>3. ASSUME NEW j \in batch
      PROVE  key[j] \in keys /\ taken[key[j]] = excess[j]
  <2> DEFINE r == old.slot[j]
  <2>1. j \in Nat /\ InList(old, j) /\ IsValidatorList(old)
    BY <1>1, VisitPlace DEF Used, InList, KeyedLists
  <2>2. Balances(old)[r.key]
          = Balance(r.active_balance, r.delinquent_upgrader_active_balance)
    BY <2>1, BalanceFound DEF Get
  <2>3. excess[j] = r.active_balance - r.delinquent_upgrader_active_balance
    BY DEF FinalizeCall, ValidatorAt, Get
  <2>4. key[j] = r.key /\ r.key \in keys
    BY <1>0
  <2>5. taken[r.key] = Balances(old)[r.key].active_balance
                         - Balances(old)[r.key].delinquent_upgrader_active_balance
    BY <2>4 DEF BatchTaken
  <2> HIDE DEF r, key, keys, taken
  <2> QED
    BY <2>2, <2>3, <2>4, <2>5 DEF Balance
<1>4. taken \in [keys -> Nat]
  <2>0. taken = [v \in keys |-> taken[v]]
    BY Zenon DEF BatchTaken
  <2>1. \A v \in keys : \E j \in batch : key[j] = v
    BY <1>0
  <2> HIDE DEF key, keys, taken
  <2>2. ASSUME NEW v \in keys PROVE taken[v] \in Nat
    <3>1. PICK j \in batch : key[j] = v
      BY <2>1
    <3>2. taken[v] = excess[j] /\ excess[j] \in Nat
      BY <3>1, <1>1, <1>3, Zenon
    <3> QED
      BY <3>2
  <2> QED
    BY <2>0, <2>2
<1>5. Sum(taken) = Sum(excess)
  <2> HIDE DEF key, keys, taken
  <2>1. \A j \in batch : taken[key[j]] = excess[j]
    BY <1>3
  <2> QED
    <3>1. \A T : \A g \in [T -> Nat] : \A h \in Bijection(batch, T) :
            (\A x \in batch : g[h[x]] = excess[x]) => Sum(g) = Sum(excess)
      BY <1>1, SumReindex
    <3>2. \A h \in Bijection(batch, keys) :
            (\A x \in batch : taken[h[x]] = excess[x]) => Sum(taken) = Sum(excess)
      BY <3>1, <1>4
    <3> QED
      BY <3>2, <2>1, <1>2
<1>6. R!Sum(taken) = Sum(taken)
  BY SameSum
<1> QED
  BY <1>3, <1>5, <1>6

(* The balances after a batch, by key.                                     *)
LEMMA BatchBalances ==
  ASSUME KeyedLists, NEW end, NEW batch, NEW excess, NEW left,
         FinalizeCall(end, batch, excess, left),
         NEW keys, keys = {validator_list.slot[j].key : j \in batch}
  PROVE  Balances(validator_list') =
           [v \in Validator |->
              IF v \in keys
              THEN Balance(Balances(validator_list)[v].delinquent_upgrader_active_balance, 0)
              ELSE Balances(validator_list)[v]]
<1> DEFINE old == validator_list
           new == validator_list'
<1>1. /\ KeyedLists'
      /\ batch \subseteq Used(old) /\ Used(new) = Used(old) /\ new.count = old.count
      /\ \A j \in Used(old) :
           /\ new.slot[j].key = old.slot[j].key
           /\ j \notin batch => new.slot[j] = old.slot[j]
      /\ \A j \in batch :
           /\ new.slot[j].active_balance = old.slot[j].delinquent_upgrader_active_balance
           /\ new.slot[j].delinquent_upgrader_active_balance = 0
  BY FinalizeBatch
<1>2. IsValidatorList(old) /\ Distinct(old) /\ Keys(old) \subseteq Validator
  BY DEF KeyedLists, IsValidatorList
<1>3. IsValidatorList(new) /\ Distinct(new)
  BY <1>1 DEF KeyedLists, IsValidatorList
<1>4. /\ Keys(old) = {old.slot[j].key : j \in Used(old)}
      /\ Keys(new) = {new.slot[j].key : j \in Used(old)}
  BY <1>1 DEF Keys, Get, Used
<1>5. Keys(new) = Keys(old)
  BY <1>1, <1>4
<1>6. \A j \in Used(old) : j \in Nat /\ InList(old, j) /\ InList(new, j)
  BY <1>1, VisitPlace DEF Used, InList
<1> HIDE DEF new
<1>7. ASSUME NEW j \in Used(old), NEW v, v = old.slot[j].key
      PROVE  /\ Balances(old)[v] = Balance(old.slot[j].active_balance,
                                     old.slot[j].delinquent_upgrader_active_balance)
             /\ Balances(new)[v] = Balance(new.slot[j].active_balance,
                                     new.slot[j].delinquent_upgrader_active_balance)
             /\ v \in keys <=> j \in batch
  <2>1. Balances(old)[v] = Balance(old.slot[j].active_balance,
                             old.slot[j].delinquent_upgrader_active_balance)
    BY <1>2, <1>6, <1>7, BalanceFound DEF Get
  <2>2. Balances(new)[new.slot[j].key] = Balance(new.slot[j].active_balance,
                             new.slot[j].delinquent_upgrader_active_balance)
    BY <1>3, <1>6, BalanceFound DEF Get
  <2>3. v \in keys <=> j \in batch
    BY <1>1, <1>2, <1>7 DEF Distinct
  <2> QED
    BY <2>1, <2>2, <2>3, <1>1, <1>7
<1>8. \A a, b : Balance(a, b).delinquent_upgrader_active_balance = b
  BY DEF Balance
<1>9. ASSUME NEW v \in Validator
      PROVE  Balances(new)[v] =
               IF v \in keys
               THEN Balance(Balances(old)[v].delinquent_upgrader_active_balance, 0)
               ELSE Balances(old)[v]
  <2>1. CASE v \in Keys(old)
    <3>1. PICK j \in Used(old) : v = old.slot[j].key
      BY <2>1, <1>4
    <3>2. CASE j \in batch
      <4>1. Balances(new)[v] = Balance(old.slot[j].delinquent_upgrader_active_balance, 0)
        BY <3>1, <3>2, <1>1, <1>7
      <4>2. Balances(old)[v].delinquent_upgrader_active_balance
              = old.slot[j].delinquent_upgrader_active_balance
        BY <3>1, <1>7, <1>8
      <4> QED
        BY <3>1, <3>2, <4>1, <4>2, <1>7
    <3>3. CASE j \notin batch
      BY <3>1, <3>3, <1>1, <1>7
    <3> QED
      BY <3>2, <3>3
  <2>2. CASE v \notin Keys(old)
    <3>1. v \notin keys
      BY <2>2, <1>1, <1>4
    <3> QED
      BY <2>2, <3>1, <1>5 DEF Balances
  <2> QED
    BY <2>1, <2>2
<1>10. Balances(new) = [v \in Validator |-> Balances(new)[v]]
  BY DEF Balances
<1> QED
  BY <1>9, <1>10 DEF new

\* The progress of the upgrade.
Stage(done, visited, left) == [done |-> done, visited |-> visited, left |-> left]

Advanced(r, visited, left) == [r EXCEPT !.visited = visited, !.left = left]

(* A batch advances it.                                                    *)
LEMMA StageAdvanced ==
  ASSUME NEW done, NEW a, NEW b, NEW visited, NEW left
  PROVE  Advanced(Stage(done, a, b), visited, left) = Stage(done, visited, left)
<1> DEFINE r == [Stage(done, a, b) EXCEPT !.visited = visited]
<1>1. r = Stage(done, visited, b)
  BY DEF Stage
<1>2. Advanced(Stage(done, a, b), visited, left) = [r EXCEPT !.left = left]
  BY DEF Advanced
<1> HIDE DEF r
<1>3. [r EXCEPT !.left = left] = Stage(done, visited, left)
  BY <1>1 DEF Stage
<1> QED
  BY <1>2, <1>3

(* finalize_delinquent_upgrade visits the validators of its batch.         *)
LEMMA FinalizeVisits ==
  ASSUME KeyedLists, NEW max_validators \in Index, FinalizeDelinquentUpgrade(max_validators)
  PROVE  KeyedLists' /\ \E keys \in SUBSET Validator : R!Finalize(keys)
<1>1. PICK end, batch, excess, left : FinalizeCall(end, batch, excess, left)
  BY FinalizeCalls
<1> DEFINE old   == validator_list
           first == delinquent_upgrader.visited_count
           keys  == {old.slot[j].key : j \in batch}
           B     == Balances(validator_list)
           taken == BatchTaken(batch)
           now   == Progress.visited \cup keys
<1>2. /\ KeyedLists' /\ batch \subseteq Used(old) /\ left \in Nat
      /\ \A j \in Used(old) : validator_list'.slot[j].key = old.slot[j].key
  BY <1>1, FinalizeBatch
<1>3. /\ first \in Nat /\ end \in Nat /\ first <= end /\ end <= old.count
      /\ old.count \in Nat /\ batch = first..(end - 1) /\ ~IsDone
      /\ UNCHANGED <<stake_list, voter>>
      /\ left = delinquent_upgrader.delinquent_balance_left - Sum(excess)
      /\ \A j \in batch : excess[j] >= 0
      /\ left >= 0
  BY <1>1, VisitPlace DEF FinalizeCall
<1>4. IF end = old.count
      THEN left = 0 /\ delinquent_upgrader' = Done
      ELSE delinquent_upgrader' =
             [done |-> FALSE, visited_count |-> end, delinquent_balance_left |-> left]
  BY <1>1 DEF FinalizeCall
<1>5. /\ IsValidatorList(old) /\ Distinct(old) /\ Keys(old) \subseteq Validator
      /\ Keys(old) = {old.slot[j].key : j \in Used(old)}
  BY DEF KeyedLists, IsValidatorList, Keys, Used, Get
<1>6. keys \subseteq Keys(old)
  BY <1>2, <1>5
<1>7. \A v \in Validator : B[v].listed <=> v \in Keys(old)
  BY DEF Balances
<1>8. /\ Progress.visited = {old.slot[j].key : j \in 0..(first - 1)}
      /\ ~Progress.done /\ Progress.left = delinquent_upgrader.delinquent_balance_left
  BY <1>3 DEF Progress, ValidatorAt, Get
<1>9. now = {old.slot[j].key : j \in 0..(end - 1)}
  <2>1. 0..(end - 1) = (0..(first - 1)) \cup batch
    BY <1>3
  <2> QED
    BY <2>1, <1>8
<1>10. \A v \in keys : B[v].listed /\ v \notin Progress.visited
  <2> TAKE v \in keys
  <2>1. PICK j \in batch : v = old.slot[j].key
    OBVIOUS
  <2>2. \A k \in 0..(first - 1) : k \in Used(old) /\ k \notin batch
    BY <1>3 DEF Used
  <2>3. v \notin Progress.visited
    BY <2>1, <2>2, <1>2, <1>5, <1>8 DEF Distinct
  <2> QED
    BY <2>3, <1>5, <1>6, <1>7
<1>11. (\A v \in Validator : B[v].listed => v \in now) <=> end = old.count
  <2>1. (\A v \in Validator : B[v].listed => v \in now) <=> Keys(old) \subseteq now
    <3> HIDE DEF B, now
    <3> QED
      BY <1>5, <1>7
  <2>2. ASSUME end = old.count PROVE Keys(old) \subseteq now
    BY <2>2, <1>5, <1>9 DEF Used
  <2>3. ASSUME end # old.count PROVE ~(Keys(old) \subseteq now)
    <3>1. end \in Used(old) /\ \A k \in 0..(end - 1) : k \in Used(old) /\ k # end
      BY <2>3, <1>3 DEF Used
    <3>2. old.slot[end].key \in Keys(old) /\ old.slot[end].key \notin now
      BY <3>1, <1>5, <1>9 DEF Distinct
    <3> QED
      BY <3>2
  <2> QED
    BY <2>1, <2>2, <2>3
<1>12. /\ R!Sum(taken) = Sum(excess)
       /\ \A v \in keys : taken[v] >= 0
  <2>1. /\ R!Sum(taken) = Sum(excess)
        /\ \A j \in batch : taken[old.slot[j].key] = excess[j]
    BY <1>1, BatchExcess
  <2> HIDE DEF taken
  <2> QED
    BY <2>1, <1>3
<1>13. Balances(validator_list)' =
         [v \in Validator |->
            IF v \in keys
            THEN [B[v] EXCEPT !.active_balance = @ - taken[v],
                              !.delinquent_upgrader_active_balance = 0]
            ELSE B[v]]
  <2> DEFINE D(v) == B[v].delinquent_upgrader_active_balance
  <2>1. Balances(validator_list') =
          [v \in Validator |-> IF v \in keys THEN Balance(D(v), 0) ELSE B[v]]
    <3>1. \A k : k = {validator_list.slot[j].key : j \in batch} =>
            Balances(validator_list') =
              [v \in Validator |->
                 IF v \in k
                 THEN Balance(Balances(validator_list)[v].delinquent_upgrader_active_balance, 0)
                 ELSE Balances(validator_list)[v]]
      BY <1>1, BatchBalances
    <3> QED
      BY <3>1, Zenon
  <2>2. Balances(validator_list)' = Balances(validator_list')
    BY DEF Balances
  <2>3. ASSUME NEW v \in keys
        PROVE  [B[v] EXCEPT !.active_balance = @ - taken[v],
                            !.delinquent_upgrader_active_balance = 0] = Balance(D(v), 0)
    <3>1. PICK a, b \in Nat : B[v] = Balance(a, b)
      <4>1. PICK j \in Used(old) : v = old.slot[j].key
        BY <1>2
      <4>2. j \in Nat /\ InList(old, j)
        BY <1>3 DEF Used, InList
      <4> QED
        BY <4>1, <4>2, <1>5, BalanceFound DEF Get
    <3>2. taken[v] = a - b /\ D(v) = b /\ B[v].active_balance = a
      <4>1. taken[v] = B[v].active_balance - B[v].delinquent_upgrader_active_balance
        BY DEF BatchTaken, BatchKeys
      <4> HIDE DEF B, taken
      <4> QED
        BY <4>1, <3>1 DEF Balance
    <3>3. WithBoth(B[v], b, 0) = Balance(b, 0)
      BY <3>1, BalanceChanged
    <3>4. B[v].active_balance - taken[v] = b
      BY <3>2
    <3> HIDE DEF B, taken, D
    <3>5. WithBoth(B[v], B[v].active_balance - taken[v], 0) = Balance(D(v), 0)
      BY <3>2, <3>3, <3>4, Zenon
    <3> QED
      BY <3>5 DEF WithBoth
  <2> HIDE DEF keys, B, taken, D
  <2> QED
    BY <2>1, <2>2, <2>3
<1>14. Progress' = IF \A v \in Validator : B[v].listed => v \in now
                   THEN R!Done
                   ELSE [Progress EXCEPT !.visited = now, !.left = left]
  <2>1. CASE end = old.count
    <3>1. delinquent_upgrader' = Done
      BY <2>1, <1>4
    <3> DEFINE on == TRUE
    <3>2. Done = [done |-> on, visited_count |-> 0, delinquent_balance_left |-> 0]
      BY DEF Done
    <3>3. R!Done = Stage(on, {}, 0)
      BY DEF R!Done, Stage
    <3> HIDE DEF on
    <3>4. /\ IsDone' = on /\ delinquent_upgrader'.visited_count = 0
          /\ delinquent_upgrader'.delinquent_balance_left = 0
      BY <3>1, <3>2 DEF IsDone
    <3>5. Progress' = Stage(IsDone', {ValidatorAt(j)'.key : j \in 0..(0 - 1)}, 0)
      BY <3>4 DEF Progress, Stage
    <3>6. {ValidatorAt(j)'.key : j \in 0..(0 - 1)} = {}
      OBVIOUS
    <3>7. Progress' = R!Done
      BY <3>3, <3>4, <3>5, <3>6
    <3> QED
      BY <3>7, <2>1, <1>11
  <2>2. CASE end # old.count
    <3>1. delinquent_upgrader' =
            [done |-> FALSE, visited_count |-> end, delinquent_balance_left |-> left]
      BY <2>2, <1>4
    <3>2. /\ delinquent_upgrader'.visited_count = end
          /\ delinquent_upgrader'.delinquent_balance_left = left /\ ~IsDone'
      BY <3>1 DEF IsDone
    <3>3. {ValidatorAt(j)'.key : j \in 0..(end - 1)} = now
      <4>1. \A j \in 0..(end - 1) : j \in Used(old)
        BY <1>3 DEF Used
      <4> QED
        BY <4>1, <1>2, <1>9 DEF ValidatorAt, Get
    <3>4. IsDone' = IsDone
      BY <3>2, <1>2, <1>3 DEF KeyedLists, IsDone
    <3>5. Progress' = Stage(IsDone', now, left)
      <4>1. Progress' = Stage(IsDone', {ValidatorAt(j)'.key : j \in 0..(end - 1)}, left)
        BY <3>2, Zenon DEF Progress, Stage
      <4> QED
        BY <4>1, <3>3, Zenon
    <3>6. PICK a, b : Progress = Stage(IsDone, a, b)
      BY DEF Progress, Stage
    <3> HIDE DEF now
    <3>7. Progress' = Advanced(Progress, now, left)
      <4>1. Advanced(Stage(IsDone, a, b), now, left) = Stage(IsDone, now, left)
        BY StageAdvanced
      <4> QED
        BY <4>1, <3>4, <3>5, <3>6
    <3>8. Progress' = [Progress EXCEPT !.visited = now, !.left = left]
      BY <3>7, Zenon DEF Advanced
    <3> QED
      BY <3>8, <2>2, <1>11 DEF now
  <2> QED
    BY <2>1, <2>2
<1>15. UNCHANGED <<voter, Held(stake_list)>>
  BY <1>3 DEF Held
<1>16. taken = [v \in keys |-> B[v].active_balance
                                - B[v].delinquent_upgrader_active_balance]
  BY Zenon DEF BatchTaken, BatchKeys
<1>17. /\ left = Progress.left - R!Sum(taken)
       /\ (\A v \in Validator : B[v].listed => v \in now) => left = 0
  BY <1>3, <1>4, <1>8, <1>11, <1>12
<1>18. R!Finalize(keys)
  <2> HIDE DEF keys, B
  <2>1. /\ ~Progress.done
        /\ \A v \in keys : B[v].listed /\ v \notin Progress.visited
    BY <1>8, <1>10
  <2> QED
    BY <2>1, <1>13, <1>14, <1>15, <1>16, <1>17, Zenon DEF R!Finalize, R!Listed, B
<1> QED
  BY <1>2, <1>5, <1>6, <1>18

(* Each step of the lists is a step of the records, or none.               *)
LEMMA ListsSteps ==
  ASSUME KeyedLists, [Next]_vars
  PROVE  KeyedLists' /\ [R!Next]_(R!vars)
<1>1. CASE \E s \in Stake, v \in Validator, j \in Index :
             \E lamports \in Lamports[s] : DepositStakeAccount(s, v, lamports, j)
  <2>1. PICK s \in Stake, v \in Validator, j \in Index :
               \E lamports \in Lamports[s] : DepositStakeAccount(s, v, lamports, j)
    BY <1>1
  <2>2. PICK lamports \in Lamports[s] : DepositStakeAccount(s, v, lamports, j)
    BY <2>1
  <2>3. KeyedLists' /\ R!Enter(s, v, lamports)
    BY <2>2, DepositEnters
  <2> QED
    BY <2>3, Zenon DEF R!Next
<1>2. CASE \E s \in Stake, i, j \in Index :
             \E lamports \in Lamports[s] : UpdateActive(s, lamports, i, j)
  <2>1. PICK s \in Stake, i \in Index, j \in Index :
               \E lamports \in Lamports[s] : UpdateActive(s, lamports, i, j)
    BY <1>2
  <2>2. PICK lamports \in Lamports[s] : UpdateActive(s, lamports, i, j)
    BY <2>1
  <2>3. KeyedLists' /\ R!Change(s, lamports)
    BY <2>2, UpdateChanges
  <2> QED
    BY <2>3, Zenon DEF R!Next
<1>3. CASE \E s \in Stake, i, j \in Index : DeactivateStake(s, i, j)
  <2>1. PICK s \in Stake, i \in Index, j \in Index : DeactivateStake(s, i, j)
    BY <1>3
  <2>2. KeyedLists' /\ R!Deactivate(s)
    BY <2>1, DeactivateDeactivates
  <2> QED
    BY <2>2, Zenon DEF R!Next
<1>4. CASE \E s, new \in Stake, i, j \in Index :
             \E lamports \in Lamports[new] : DeactivateSplit(s, new, lamports, i, j)
  <2>1. PICK s \in Stake, new \in Stake, i \in Index, j \in Index :
               \E lamports \in Lamports[new] : DeactivateSplit(s, new, lamports, i, j)
    BY <1>4
  <2>2. PICK lamports \in Lamports[new] : DeactivateSplit(s, new, lamports, i, j)
    BY <2>1
  <2>3. KeyedLists' /\ R!Split(s, new, lamports)
    BY <2>2, SplitSplits
  <2> QED
    BY <2>3, Zenon DEF R!Next
<1>5. CASE \E s \in Stake, i, j \in Index : UpdateDeactivated(s, i, j)
  <2>1. PICK s \in Stake, i \in Index, j \in Index : UpdateDeactivated(s, i, j)
    BY <1>5
  <2>2. KeyedLists' /\ R!Leave(s)
    BY <2>1, CollectLeaves
  <2> QED
    BY <2>2, Zenon DEF R!Next
<1>6. CASE \E s \in Stake, i, source, j \in Index : MergeStakes(s, i, source, j)
  <2>1. PICK s \in Stake, i \in Index, source \in Index, j \in Index :
               MergeStakes(s, i, source, j)
    BY <1>6
  <2>2. KeyedLists' /\ \E v \in Validator : R!Merge(v, s)
    BY <2>1, MergeMerges
  <2> QED
    BY <2>2, Zenon DEF R!Next
<1>7. CASE \E s \in Stake, i, j \in Index : CreateCanonicalStake(s, i, j)
  <2>1. PICK s \in Stake, i \in Index, j \in Index : CreateCanonicalStake(s, i, j)
    BY <1>7
  <2>2. KeyedLists' /\ \E v \in Validator : R!Rename(v, s)
    BY <2>1, CreateRenames
  <2> QED
    BY <2>2, Zenon DEF R!Next
<1>8. CASE \E v \in Validator : AddValidator(v)
  <2>1. PICK v \in Validator : AddValidator(v)
    BY <1>8
  <2>2. KeyedLists' /\ R!AddValidator(v)
    BY <2>1, AddAdds
  <2> QED
    BY <2>2, Zenon DEF R!Next
<1>9. CASE \E v \in Validator, j \in Index : RemoveValidator(v, j)
  <2>1. PICK v \in Validator, j \in Index : RemoveValidator(v, j)
    BY <1>9
  <2>2. KeyedLists' /\ R!RemoveValidator(v)
    BY <2>1, RemoveRemoves
  <2> QED
    BY <2>2, Zenon DEF R!Next
<1>10. CASE \/ \E capacity \in StakeCapacity : ReallocStakeList(capacity)
            \/ \E capacity \in ValidatorCapacity : ReallocValidatorList(capacity)
  <2>1. KeyedLists' /\ UNCHANGED R!vars
    BY <1>10, ReallocStutters
  <2> QED
    BY <2>1
<1>11. CASE \E max_validators \in Index : FinalizeDelinquentUpgrade(max_validators)
  <2>1. PICK max_validators \in Index : FinalizeDelinquentUpgrade(max_validators)
    BY <1>11
  <2>2. KeyedLists' /\ \E keys \in SUBSET Validator : R!Finalize(keys)
    BY <2>1, FinalizeVisits
  <2> QED
    BY <2>2, Zenon DEF R!Next
<1>12. CASE UNCHANGED vars
  <2>1. UNCHANGED <<stake_list, validator_list, voter, duplication_flag, delinquent_upgrader>>
    BY <1>12 DEF vars
  <2>2. KeyedLists'
    BY <2>1 DEF KeyedLists, IsDone
  <2>3. UNCHANGED <<Held(stake_list), Balances(validator_list)>>
    BY <2>1 DEF Held, Balances
  <2>4. UNCHANGED Progress
    BY <2>1, ProgressKept
  <2> QED
    BY <2>1, <2>2, <2>3, <2>4 DEF R!vars
<1> QED
  BY <1>1, <1>2, <1>3, <1>4, <1>5, <1>6, <1>7, <1>8, <1>9, <1>10, <1>11, <1>12, Zenon
     DEF Next

-----------------------------------------------------------------------------
(* The initial states.                                                     *)

(* A list made of given records.                                           *)
LEMMA ListOfRecords ==
  ASSUME NEW records, NEW given \in Seq(records), NEW capacity \in Nat,
         Len(given) <= capacity, NEW blank \in records,
         NEW new, new = ListOf(given, capacity, blank)
  PROVE  /\ IsList(new, records) /\ new.count = Len(given) /\ new.count \in Nat
         /\ \A i \in Used(new) : i + 1 \in 1..Len(given) /\ new.slot[i] = given[i + 1]
<1>1. Len(given) \in Nat /\ given \in [1..Len(given) -> records]
  BY LenProperties
<1>2. /\ new.slot = [i \in 0..(capacity - 1) |->
                       IF i < Len(given) THEN given[i + 1] ELSE blank]
      /\ new.count = Len(given) /\ new = [slot |-> new.slot, count |-> new.count]
  BY DEF ListOf
<1> DEFINE m == Len(given)
<1> HIDE DEF m
<1>3. /\ m \in Nat /\ m <= capacity /\ given \in [1..m -> records]
      /\ new.slot = [i \in 0..(capacity - 1) |-> IF i < m THEN given[i + 1] ELSE blank]
      /\ new.count = m
  BY <1>1, <1>2 DEF m
<1>4. new.slot \in [0..(capacity - 1) -> records]
  <2>1. ASSUME NEW i \in 0..(capacity - 1)
        PROVE  (IF i < m THEN given[i + 1] ELSE blank) \in records
    <3>1. CASE i < m
      <4>1. i + 1 \in 1..m
        BY <3>1, <1>3
      <4> QED
        BY <4>1, <3>1, <1>3
    <3>2. CASE ~(i < m)
      BY <3>2
    <3> QED
      BY <3>1, <3>2
  <2> QED
    BY <2>1, <1>3
<1>5. Slots(new, capacity, records)
  BY <1>2, <1>3, <1>4 DEF Slots
<1>6. \A i \in Used(new) : i + 1 \in 1..m /\ new.slot[i] = given[i + 1]
  <2> TAKE i \in Used(new)
  <2>1. i \in 0..(capacity - 1) /\ i < m /\ i + 1 \in 1..m
    BY <1>3 DEF Used
  <2> QED
    BY <2>1, <1>3
<1> QED
  BY <1>3, <1>5, <1>6 DEF IsList, m

(* The lists initialize makes are empty.                                   *)
LEMMA EmptyKeyed ==
  ASSUME InitEmpty
  PROVE  KeyedLists
<1>1. /\ BlankStake \in StakeRecords /\ BlankValidator \in ValidatorRecords
  BY DEF BlankStake, StakeRecord, StakeRecords, BlankValidator, ValidatorRecord,
         ValidatorRecords
<1>2. ASSUME NEW list, NEW records, NEW capacity \in Nat, NEW blank \in records,
             list = ListOf(<<>>, capacity, blank)
      PROVE  IsList(list, records) /\ Distinct(list) /\ Keys(list) = {} /\ list.count = 0
  <2>1. PICK given \in Seq(records) : given = <<>> /\ Len(given) = 0
    BY EmptySeq
  <2>2. IsList(list, records) /\ list.count = 0
    <3>1. Len(given) <= capacity /\ list = ListOf(given, capacity, blank)
      BY <2>1, <1>2
    <3>2. IsList(list, records) /\ list.count = Len(given)
      BY <3>1, ListOfRecords
    <3> QED
      BY <2>1, <3>2
  <2>3. Used(list) = {}
    BY <2>2 DEF Used
  <2> QED
    BY <2>2, <2>3 DEF Distinct, Keys, Used, Get
<1>3. StakeCapacity \subseteq Nat /\ ValidatorCapacity \subseteq Nat
  BY ListsAssumption
<1>4. /\ IsStakeList(stake_list) /\ Keys(stake_list) = {}
  <2>1. PICK capacity \in StakeCapacity : stake_list = ListOf(<<>>, capacity, BlankStake)
    BY DEF InitEmpty
  <2> QED
    BY <2>1, <1>1, <1>2, <1>3 DEF IsStakeList
<1>5. /\ IsValidatorList(validator_list) /\ Keys(validator_list) = {}
      /\ validator_list.count = 0
  <2>1. PICK capacity \in ValidatorCapacity :
               validator_list = ListOf(<<>>, capacity, BlankValidator)
    BY DEF InitEmpty
  <2> QED
    BY <2>1, <1>1, <1>2, <1>3 DEF IsValidatorList
<1>6. /\ voter = [s \in Stake |-> None] /\ duplication_flag = {}
      /\ delinquent_upgrader = Done
  BY DEF InitEmpty
<1>7. /\ delinquent_upgrader \in
           [done : BOOLEAN, visited_count : Nat, delinquent_balance_left : Nat]
      /\ delinquent_upgrader.visited_count = 0
  BY <1>6 DEF Done
<1> QED
  BY <1>4, <1>5, <1>6, <1>7 DEF KeyedLists

\* What the upgrade finds, its values named.
UpgradeFound(s, v, excess, order, capacity, validator_capacity, lamports) ==
  LET found == [w \in Validator |-> IF w = v THEN lamports ELSE 0]
  IN /\ \A w \in Validator : \E n \in DOMAIN order : order[n] = w
     /\ v \in MayDelegate[s]
     /\ Cardinality(Validator) <= validator_capacity
     /\ stake_list = ListOf(<<StakeRecord(s, lamports, TRUE)>>, capacity, BlankStake)
     /\ validator_list = ListOf(
          [n \in DOMAIN order |->
             [key |-> order[n], active_balance |-> found[order[n]] + excess[order[n]],
              delinquent_upgrader_active_balance |-> found[order[n]]]],
          validator_capacity, BlankValidator)
     /\ voter = [a \in Stake |-> IF a = s THEN v ELSE None]
     /\ duplication_flag = Validator
     /\ delinquent_upgrader =
          [done |-> FALSE, visited_count |-> 0, delinquent_balance_left |-> Sum(excess)]

\* The stake of every validator but v is nil, and the upgrade is to visit all.
OneFound(s, v, lamports) ==
  /\ voter = [a \in Stake |-> IF a = s THEN v ELSE None]
  /\ Held(stake_list)[s].active /\ Held(stake_list)[s].lamports = lamports
  /\ ~IsDone
  /\ Keys(validator_list) = Validator
  /\ \A j \in Used(validator_list) :
       LET record == validator_list.slot[j]
       IN record.delinquent_upgrader_active_balance = IF record.key = v THEN lamports ELSE 0

(* The lists the upgrade finds: every validator once, and one account.     *)
LEMMA UpgradeKeyed ==
  ASSUME InitUpgrade
  PROVE  /\ KeyedLists /\ delinquent_upgrader.visited_count = 0
         /\ \E s \in Stake, v \in Validator, lamports \in Nat : OneFound(s, v, lamports)
<1> DEFINE on == TRUE
<1>1. PICK s \in Keypair, v \in Validator, excess \in [Validator -> {0, 1}],
           order \in [1..Cardinality(Validator) -> Validator],
           capacity \in StakeCapacity \ {0}, validator_capacity \in ValidatorCapacity :
           \E lamports \in Lamports[s] : UpgradeFound(s, v, excess, order, capacity,
                                                     validator_capacity, lamports)
  BY Zenon DEF InitUpgrade, UpgradeFound
<1>0. PICK lamports \in Lamports[s] :
             UpgradeFound(s, v, excess, order, capacity, validator_capacity, lamports)
  BY <1>1
<1> DEFINE N     == Cardinality(Validator)
           found == [w \in Validator |-> IF w = v THEN lamports ELSE 0]
           first == StakeRecord(s, lamports, on)
           one   == <<first>>
           entry(w) == [key |-> w, active_balance |-> found[w] + excess[w],
                        delinquent_upgrader_active_balance |-> found[w]]
           all   == [n \in 1..N |-> entry(order[n])]
<1>2. /\ \A w \in Validator : \E n \in 1..N : order[n] = w
      /\ N <= validator_capacity
      /\ stake_list = ListOf(one, capacity, BlankStake)
      /\ validator_list = ListOf(all, validator_capacity, BlankValidator)
      /\ voter = [a \in Stake |-> IF a = s THEN v ELSE None]
      /\ duplication_flag = Validator
      /\ delinquent_upgrader =
           [done |-> FALSE, visited_count |-> 0, delinquent_balance_left |-> Sum(excess)]
  <2>1. DOMAIN order = 1..N
    OBVIOUS
  <2> QED
    BY <2>1, <1>0, Zenon DEF UpgradeFound
<1>3. /\ N \in Nat /\ s \in Stake /\ lamports \in Nat /\ None \notin Validator
      /\ capacity \in Nat /\ capacity >= 1 /\ validator_capacity \in Nat
      /\ excess \in [Validator -> Nat] /\ Sum(excess) \in Nat
  <2>1. N \in Nat
    BY FS_CardinalityType, ListsAssumption
  <2>2. s \in Stake /\ lamports \in Nat
    BY ListsAssumption DEF Keypair
  <2>3. capacity \in Nat /\ capacity >= 1 /\ validator_capacity \in Nat
    BY ListsAssumption
  <2>4. excess \in [Validator -> Nat]
    OBVIOUS
  <2>5. Sum(excess) \in Nat
    BY <2>4, SumType, ListsAssumption
  <2> QED
    BY <2>1, <2>2, <2>3, <2>4, <2>5, ListsAssumption
<1>4. BlankStake \in StakeRecords /\ BlankValidator \in ValidatorRecords
  BY DEF BlankStake, StakeRecord, StakeRecords, BlankValidator, ValidatorRecord,
         ValidatorRecords
<1>5. /\ first \in StakeRecords /\ first.key = s
      /\ first.lamports = lamports /\ first.active
  BY <1>3 DEF StakeRecord, StakeRecords
<1>6. \A w \in Validator : entry(w) \in ValidatorRecords /\ entry(w).key = w
  BY <1>3 DEF ValidatorRecords
<1>7. all \in Seq(ValidatorRecords) /\ Len(all) = N
  <2>0. \A n \in 1..N : order[n] \in Validator
    OBVIOUS
  <2> HIDE DEF entry, N
  <2>1. all \in [1..N -> ValidatorRecords]
    BY <2>0, <1>6
  <2> QED
    BY <2>1, <1>3
<1>8. /\ IsStakeList(stake_list) /\ Keys(stake_list) = {s}
      /\ Held(stake_list)[s].active /\ Held(stake_list)[s].lamports = lamports
  <2> HIDE DEF first
  <2>1. PICK given \in Seq(StakeRecords) :
               given = one /\ Len(given) = 1 /\ given[1] = first
    <3>1. one \in Seq(StakeRecords) /\ Len(one) = 1 /\ one[1] = first
      BY <1>5
    <3> HIDE DEF one
    <3> QED
      BY <3>1
  <2>2. Len(given) <= capacity /\ stake_list = ListOf(given, capacity, BlankStake)
    BY <2>1, <1>2, <1>3
  <2>3. /\ IsList(stake_list, StakeRecords) /\ stake_list.count = Len(given)
        /\ \A i \in Used(stake_list) : stake_list.slot[i] = given[i + 1]
    BY <2>2, <1>3, <1>4, ListOfRecords
  <2>4. Used(stake_list) = {0}
    BY <2>1, <2>3 DEF Used
  <2>5. stake_list.slot[0] = first
    BY <2>1, <2>3, <2>4
  <2>6. Distinct(stake_list)
    BY <2>4 DEF Distinct
  <2>7. Keys(stake_list) = {s}
    BY <2>4, <2>5, <1>5 DEF Keys, Get, Used
  <2>8. RecordOf(stake_list, s) = first
    BY <2>4, <2>5, <2>6, <1>5, FindRecord
  <2>9. Held(stake_list)[s].active /\ Held(stake_list)[s].lamports = lamports
    BY <2>7, <2>8, <1>3, <1>5 DEF Held
  <2> QED
    BY <2>3, <2>6, <2>7, <2>9, <1>3 DEF IsStakeList
<1>9. IsFiniteSet(1..N) /\ Cardinality(1..N) = N
  <2> HIDE DEF N
  <2> QED
    BY <1>3, OneTo
<1>10. \A m, n \in 1..N : order[m] = order[n] => m = n
  <2> HIDE DEF N
  <2>1. order \in [1..N -> Validator]
    BY DEF N
  <2>2. order \in Surjection(1..N, Validator)
    BY <2>1, <1>2 DEF Surjection
  <2>3. Cardinality(1..N) = Cardinality(Validator)
    BY <1>9 DEF N
  <2>4. order \in Injection(1..N, Validator)
    BY <2>2, <2>3, <1>9, FS_SurjSameCardinalityImpliesInj
  <2> QED
    BY <2>4 DEF Injection, IsInjective
<1>11. /\ IsValidatorList(validator_list) /\ Keys(validator_list) = Validator
       /\ \A j \in Used(validator_list) :
            validator_list.slot[j].delinquent_upgrader_active_balance
              = IF validator_list.slot[j].key = v THEN lamports ELSE 0
  <2>0. \A n \in 1..N : order[n] \in Validator
    OBVIOUS
  <2>1. \A n \in 1..N : all[n].key = order[n]
    BY <2>0, <1>6
  <2>10. \A n \in 1..N : all[n].delinquent_upgrader_active_balance
                            = IF order[n] = v THEN lamports ELSE 0
    BY <2>0
  <2> HIDE DEF all, N
  <2>2. /\ IsList(validator_list, ValidatorRecords) /\ validator_list.count = N
        /\ \A i \in Used(validator_list) :
             i + 1 \in 1..N /\ validator_list.slot[i] = all[i + 1]
    BY <1>2, <1>3, <1>4, <1>7, ListOfRecords
  <2>3. Used(validator_list) = 0..(N - 1)
    BY <2>2 DEF Used
  <2>4. \A i \in Used(validator_list) :
          i + 1 \in 1..N /\ validator_list.slot[i].key = order[i + 1]
    BY <2>1, <2>2
  <2>5. Distinct(validator_list)
    <3> SUFFICES ASSUME NEW i \in Used(validator_list), NEW j \in Used(validator_list),
                        validator_list.slot[i].key = validator_list.slot[j].key
                 PROVE  i = j
      BY DEF Distinct
    <3>1. i + 1 = j + 1
      BY <2>4, <1>10
    <3> QED
      BY <3>1, <2>3, <1>3
  <2>6. Keys(validator_list) = {validator_list.slot[i].key : i \in Used(validator_list)}
    BY DEF Keys, Get, Used
  <2>7. \A w \in Validator : w \in Keys(validator_list)
    <3> TAKE w \in Validator
    <3>1. PICK n \in 1..N : order[n] = w
      BY <1>2
    <3>2. n - 1 \in Used(validator_list) /\ (n - 1) + 1 = n
      BY <2>3, <1>3
    <3> QED
      BY <3>1, <3>2, <2>4, <2>6
  <2>8. Keys(validator_list) = Validator
    BY <2>0, <2>4, <2>6, <2>7
  <2>9. \A j \in Used(validator_list) :
          validator_list.slot[j].delinquent_upgrader_active_balance
            = IF validator_list.slot[j].key = v THEN lamports ELSE 0
    BY <2>2, <2>4, <2>10
  <2> QED
    BY <2>2, <2>5, <2>8, <2>9 DEF IsValidatorList
<1>12. validator_list.count \in Nat
  BY <1>11, KeysCount DEF IsValidatorList
<1>13. /\ delinquent_upgrader \in
            [done : BOOLEAN, visited_count : Nat, delinquent_balance_left : Nat]
       /\ delinquent_upgrader.visited_count = 0 /\ ~IsDone
  BY <1>2, <1>3 DEF IsDone
<1>15. delinquent_upgrader.visited_count <= validator_list.count
  BY <1>12, <1>13
<1>14. /\ voter \in [Stake -> Validator \cup {None}]
       /\ {a \in Stake : voter[a] # None} = {s}
  BY <1>2, <1>3
<1>16. KeyedLists
  BY <1>2, <1>8, <1>11, <1>13, <1>14, <1>15, Zenon DEF KeyedLists
<1>17. OneFound(s, v, lamports)
  BY <1>2, <1>8, <1>11, <1>13, Zenon DEF OneFound
<1> QED
  BY <1>3, <1>13, <1>16, <1>17

(* Either way, the records may be read by their keys.                      *)
LEMMA ListsStart ==
  ASSUME Init
  PROVE  KeyedLists /\ R!Init
<1>1. KeyedLists /\ delinquent_upgrader.visited_count = 0
  <2>1. CASE InitEmpty
    BY <2>1, EmptyKeyed DEF InitEmpty, Done
  <2>2. CASE InitUpgrade
    BY <2>2, UpgradeKeyed
  <2> QED
    BY <2>1, <2>2 DEF Init
<1>2. \A s \in Stake : voter[s] = None => Held(stake_list)[s] = R!Absent
  BY <1>1 DEF KeyedLists, Held, R!Absent
<1>3. \A v \in Validator : ~Balances(validator_list)[v].listed
                             => Balances(validator_list)[v] = R!NoBalance
  BY DEF Balances, R!NoBalance
<1>4. Progress.visited = {}
  BY <1>1 DEF Progress
<1> QED
  BY <1>1, <1>2, <1>3, <1>4 DEF R!Init, R!Listed

-----------------------------------------------------------------------------
(* The lists stay keyed, whatever indices the callers give.                *)
THEOREM ListsStayKeyed == Spec => []KeyedLists
<1>1. Init => KeyedLists
  BY ListsStart
<1>2. KeyedLists /\ [Next]_vars => KeyedLists'
  BY ListsSteps
<1> QED
  BY <1>1, <1>2, PTL DEF Spec

(* So the records fit in their account, no key is found twice, and a       *)
(* record is there exactly for the stake accounts and the flags held.      *)
THEOREM KeysAreUniqueHolds == Spec => []KeysAreUnique
<1>1. KeyedLists => KeysAreUnique
  BY KeysCount DEF KeyedLists, IsStakeList, IsValidatorList, KeysAreUnique
<1> QED
  BY <1>1, ListsStayKeyed, PTL

(* A call names records by index, and changes those it names by key and no *)
(* others: the two lists implement the records of the other modules.       *)
THEOREM ListsImplementRecords == Spec => ImplementsRecords
<1>1. Init => KeyedLists /\ R!Init
  BY ListsStart
<1>2. KeyedLists /\ [Next]_vars => [R!Next]_(R!vars)
  BY ListsSteps
<1> QED
  BY <1>1, <1>2, ListsStayKeyed, PTL DEF Spec, ImplementsRecords, R!Spec

-----------------------------------------------------------------------------
(* What is delegated to each validator.                                    *)

Voters == [Stake -> Validator \cup {None}]

Accounts == [Stake -> [lamports : Nat, active : BOOLEAN]]

\* What each account has active with v.
Parts(delegation, accounts, v) ==
  [s \in Stake |->
     IF delegation[s] = v /\ accounts[s].active THEN accounts[s].lamports ELSE 0]

Delegated(v) == Sum(Parts(voter, Held(stake_list), v))

\* The balance of a validator is what is delegated to it: the one the upgrade
\* counts until it is visited, the other one from then on; a validator that
\* is not listed has nothing.
Visited ==
  \A v \in Validator :
    LET record == Balances(validator_list)[v]
    IN IF ~record.listed
       THEN Delegated(v) = 0
       ELSE IF ~Progress.done /\ v \notin Progress.visited
            THEN record.delinquent_upgrader_active_balance = Delegated(v)
            ELSE record.active_balance = Delegated(v)

(* They are amounts.                                                       *)
LEMMA PartsType ==
  ASSUME NEW a \in Voters, NEW h \in Accounts, NEW v
  PROVE  Parts(a, h, v) \in [Stake -> Nat] /\ Sum(Parts(a, h, v)) \in Nat
<1>1. \A s \in Stake : h[s].lamports \in Nat
  BY DEF Accounts
<1>2. Parts(a, h, v) \in [Stake -> Nat]
  BY <1>1 DEF Parts
<1> QED
  BY <1>2, SumType, ListsAssumption

(* One account changes.                                                    *)
LEMMA PartsOne ==
  ASSUME NEW a \in Voters, NEW h \in Accounts, NEW b \in Voters, NEW k \in Accounts,
         NEW x \in Stake, \A y \in Stake \ {x} : b[y] = a[y] /\ k[y] = h[y],
         NEW v
  PROVE  Sum(Parts(b, k, v)) = Sum(Parts(a, h, v)) - Parts(a, h, v)[x] + Parts(b, k, v)[x]
<1> DEFINE f == Parts(a, h, v)
           g == Parts(b, k, v)
<1>1. \A y \in Stake \ {x} : g[y] = f[y]
  BY DEF Parts
<1>2. f \in [Stake -> Nat] /\ g \in [Stake -> Nat] /\ Sum(f) \in Nat /\ Sum(g) \in Nat
  BY PartsType
<1> HIDE DEF f, g
<1>3. Sum(g) - g[x] = Sum(f) - f[x]
  BY <1>1, <1>2, SumUpdate, ListsAssumption
<1>4. f[x] \in Nat /\ g[x] \in Nat
  BY <1>2
<1>5. Sum(g) = Sum(f) - f[x] + g[x]
  BY <1>2, <1>3, <1>4
<1> QED
  BY <1>5 DEF f, g

(* Two accounts change.                                                    *)
LEMMA PartsTwo ==
  ASSUME NEW a \in Voters, NEW h \in Accounts, NEW b \in Voters, NEW k \in Accounts,
         NEW x \in Stake, NEW z \in Stake, x # z,
         \A y \in Stake \ {x, z} : b[y] = a[y] /\ k[y] = h[y],
         NEW v
  PROVE  Sum(Parts(b, k, v)) = Sum(Parts(a, h, v)) - Parts(a, h, v)[x] - Parts(a, h, v)[z]
                                 + Parts(b, k, v)[x] + Parts(b, k, v)[z]
<1> DEFINE f == Parts(a, h, v)
           g == Parts(b, k, v)
<1>1. \A y \in Stake \ {x, z} : g[y] = f[y]
  BY DEF Parts
<1>2. f \in [Stake -> Nat] /\ g \in [Stake -> Nat]
  BY PartsType
<1> HIDE DEF f, g
<1>3. Sum(g) = Sum(f) - f[x] - f[z] + g[x] + g[z]
  BY <1>1, <1>2, SumUpdateTwo, ListsAssumption
<1> QED
  BY <1>3 DEF f, g

(* The types of the records by key.                                        *)
LEMMA ByKeyTypes ==
  ASSUME KeyedLists
  PROVE  /\ voter \in Voters /\ Held(stake_list) \in Accounts
         /\ \A v \in Validator :
              /\ Balances(validator_list)[v].active_balance \in Nat
              /\ Balances(validator_list)[v].delinquent_upgrader_active_balance \in Nat
         /\ \A v \in Validator : Delegated(v) \in Nat
<1>1. voter \in Voters /\ Held(stake_list) \in Accounts
  BY HeldType DEF KeyedLists, Voters, Accounts
<1>2. ASSUME NEW v \in Validator
      PROVE  /\ Balances(validator_list)[v].active_balance \in Nat
             /\ Balances(validator_list)[v].delinquent_upgrader_active_balance \in Nat
  <2> DEFINE list == validator_list
  <2>1. IsValidatorList(list) /\ list.count \in Nat
    BY VisitPlace DEF KeyedLists
  <2>2. CASE v \in Keys(list)
    <3>1. PICK j \in Used(list) : Get(list, j).key = v
      BY <2>2 DEF Keys, Used
    <3>2. j \in Nat /\ InList(list, j)
      BY <2>1 DEF Used, InList
    <3>3. \A a, b : /\ Balance(a, b).active_balance = a
                    /\ Balance(a, b).delinquent_upgrader_active_balance = b
      BY DEF Balance
    <3>4. /\ Get(list, j).active_balance \in Nat
          /\ Get(list, j).delinquent_upgrader_active_balance \in Nat
          /\ Balances(list)[v] = Balance(Get(list, j).active_balance,
                                         Get(list, j).delinquent_upgrader_active_balance)
      BY <2>1, <3>1, <3>2, BalanceFound
    <3> QED
      BY <3>3, <3>4
  <2>3. CASE v \notin Keys(list)
    BY <2>3 DEF Balances
  <2> QED
    BY <2>2, <2>3
<1>3. \A v \in Validator : Delegated(v) \in Nat
  BY <1>1, PartsType DEF Delegated
<1> QED
  BY <1>1, <1>2, <1>3

(* An account moves between no validator and one, or within one.           *)
LEMMA OneMoves ==
  ASSUME KeyedLists, KeyedLists', NEW x \in Stake,
         \A y \in Stake \ {x} : /\ voter'[y] = voter[y]
                                /\ Held(stake_list)'[y] = Held(stake_list)[y],
         NEW v \in Validator
  PROVE  Delegated(v)' = Delegated(v) - Parts(voter, Held(stake_list), v)[x]
                           + Parts(voter', Held(stake_list)', v)[x]
<1>1. voter \in Voters /\ Held(stake_list) \in Accounts
  BY ByKeyTypes
<1>2. voter' \in Voters /\ Held(stake_list)' \in Accounts
  BY ByKeyTypes, HeldType DEF KeyedLists, Voters, Accounts, Held
<1> DEFINE h == Held(stake_list)
           k == Held(stake_list)'
<1>3. Delegated(v)' = Sum(Parts(voter', k, v)) /\ Delegated(v) = Sum(Parts(voter, h, v))
  BY DEF Delegated, Parts
<1> HIDE DEF h, k
<1> QED
  BY <1>1, <1>2, <1>3, PartsOne DEF h, k

(* Two accounts of one validator.                                          *)
LEMMA TwoMove ==
  ASSUME KeyedLists, KeyedLists', NEW x \in Stake, NEW z \in Stake, x # z,
         \A y \in Stake \ {x, z} : /\ voter'[y] = voter[y]
                                   /\ Held(stake_list)'[y] = Held(stake_list)[y],
         NEW v \in Validator
  PROVE  Delegated(v)' = Delegated(v) - Parts(voter, Held(stake_list), v)[x]
                           - Parts(voter, Held(stake_list), v)[z]
                           + Parts(voter', Held(stake_list)', v)[x]
                           + Parts(voter', Held(stake_list)', v)[z]
<1>1. voter \in Voters /\ Held(stake_list) \in Accounts
  BY ByKeyTypes
<1>2. voter' \in Voters /\ Held(stake_list)' \in Accounts
  BY ByKeyTypes, HeldType DEF KeyedLists, Voters, Accounts, Held
<1> DEFINE h == Held(stake_list)
           k == Held(stake_list)'
<1>3. Delegated(v)' = Sum(Parts(voter', k, v)) /\ Delegated(v) = Sum(Parts(voter, h, v))
  BY DEF Delegated, Parts
<1> HIDE DEF h, k
<1> QED
  BY <1>1, <1>2, <1>3, PartsTwo DEF h, k

(* After the upgrade, what is delegated to a validator and its balance     *)
(* change by one amount.                                                   *)
LEMMA BothMove ==
  ASSUME KeyedLists, Visited, Progress.done, UNCHANGED Progress,
         NEW u \in Validator, NEW lamports \in Int, R!Balanced(u, lamports),
         \A v \in Validator :
           Delegated(v)' = Delegated(v) + IF v = u THEN lamports ELSE 0
  PROVE  Visited'
<1> DEFINE B    == Balances(validator_list)
           more == B[u].active_balance + lamports
<1>1. /\ B[u].listed /\ B' = [B EXCEPT ![u].active_balance = more]
      /\ DOMAIN B = Validator
  BY DEF R!Balanced, R!Listed, Balances
<1>2. \A v \in Validator : Delegated(v) \in Nat
  BY ByKeyTypes
<1> HIDE DEF B, more
<1>3. B'[u].listed /\ B'[u].active_balance = more
  <2>1. B'[u] = [B[u] EXCEPT !.active_balance = more]
    BY <1>1
  <2>2. B[u] = [active_balance |-> B[u].active_balance,
                delinquent_upgrader_active_balance |-> B[u].delinquent_upgrader_active_balance,
                listed |-> B[u].listed]
    BY DEF B, Balances
  <2> QED
    BY <2>1, <2>2, <1>1
<1>4. \A v \in Validator \ {u} : B'[v] = B[v]
  BY <1>1
<1>5. Progress'.done
  OBVIOUS
<1>6. ASSUME NEW v \in Validator
      PROVE  IF ~B'[v].listed THEN Delegated(v)' = 0
             ELSE B'[v].active_balance = Delegated(v)'
  <2>1. CASE v = u
    <3>1. B[u].active_balance = Delegated(u)
      BY <1>1 DEF Visited, B
    <3> QED
      BY <2>1, <3>1, <1>3 DEF more
  <2>2. CASE v # u
    <3>1. IF ~B[v].listed THEN Delegated(v) = 0 ELSE B[v].active_balance = Delegated(v)
      BY DEF Visited, B
    <3>2. Delegated(v)' = Delegated(v)
      BY <2>2, <1>2
    <3> QED
      BY <2>2, <3>1, <3>2, <1>4
  <2> QED
    BY <2>1, <2>2
<1> QED
  BY <1>5, <1>6 DEF Visited, B

(* Nothing changes but which accounts it is.                               *)
LEMMA NothingMoves ==
  ASSUME Visited, UNCHANGED <<Progress, Balances(validator_list)>>,
         \A v \in Validator : Delegated(v)' = Delegated(v)
  PROVE  Visited'
BY DEF Visited

(* A deposit goes to the balance the upgrade counts if the validator has   *)
(* still to be visited.                                                    *)
LEMMA EnterVisited ==
  ASSUME KeyedLists, KeyedLists', Visited, NEW s \in Stake, NEW u \in Validator,
         NEW lamports \in Lamports[s], R!Enter(s, u, lamports)
  PROVE  Visited'
<1> DEFINE h  == Held(stake_list)
           B  == Balances(validator_list)
           on == TRUE
           unvisited == ~Progress.done /\ u \notin Progress.visited
           more  == B[u].active_balance + lamports
           other == B[u].delinquent_upgrader_active_balance
                      + IF unvisited THEN lamports ELSE 0
<1>1. /\ voter[s] = None /\ B[u].listed
      /\ voter' = [voter EXCEPT ![s] = u]
      /\ h' = Replaced(h, s, Account(lamports, on))
      /\ B' = Replaced(B, u, WithBoth(B[u], more, other))
      /\ Progress' = Progress
  BY DEF R!Enter, R!Listed, R!Unvisited, Replaced, Account, WithBoth
<1>2. lamports \in Nat /\ None \notin Validator
  BY ListsAssumption
<1>3. voter \in Voters /\ h \in Accounts /\ \A v \in Validator : Delegated(v) \in Nat
  BY ByKeyTypes
<1>4. /\ voter'[s] = u /\ h'[s] = Account(lamports, on)
      /\ \A y \in Stake \ {s} : voter'[y] = voter[y] /\ h'[y] = h[y]
  BY <1>1, <1>3 DEF Voters, Accounts, Replaced
<1>5. h'[s].active /\ h'[s].lamports = lamports
  BY <1>4 DEF Account
<1> HIDE DEF on, h
<1>6. ASSUME NEW v \in Validator
      PROVE  Delegated(v)' = Delegated(v) + IF v = u THEN lamports ELSE 0
  <2>1. Parts(voter, h, v)[s] = 0
    BY <1>1, <1>2 DEF Parts
  <2>2. Parts(voter', h', v)[s] = IF v = u THEN lamports ELSE 0
    BY <1>4, <1>5 DEF Parts
  <2>3. Delegated(v)' = Delegated(v) - Parts(voter, h, v)[s] + Parts(voter', h', v)[s]
    BY <1>4, OneMoves DEF h
  <2> QED
    BY <2>1, <2>2, <2>3, <1>2, <1>3
<1>7. \A v \in Validator \ {u} : B'[v] = B[v]
  BY <1>1 DEF Replaced
<1>8. /\ B'[u].listed /\ B'[u].active_balance = more
      /\ B'[u].delinquent_upgrader_active_balance = other
  <2> HIDE DEF more, other
  <2>1. B'[u] = WithBoth(B[u], more, other)
    <3>1. DOMAIN B = Validator
      BY DEF Balances
    <3> HIDE DEF B
    <3> QED
      BY <3>1, <1>1 DEF Replaced
  <2>2. PICK a, b : B[u] = Balance(a, b)
    BY <1>1 DEF Balances, Balance
  <2>3. B'[u] = Balance(more, other)
    BY <2>1, <2>2, BalanceChanged
  <2> QED
    BY <2>3 DEF Balance
<1>9. /\ B[u].active_balance \in Nat /\ B[u].delinquent_upgrader_active_balance \in Nat
  BY ByKeyTypes
<1>10. ASSUME NEW v \in Validator
       PROVE  IF ~B'[v].listed
              THEN Delegated(v)' = 0
              ELSE IF ~Progress.done /\ v \notin Progress.visited
                   THEN B'[v].delinquent_upgrader_active_balance = Delegated(v)'
                   ELSE B'[v].active_balance = Delegated(v)'
  <2>1. IF ~B[v].listed
        THEN Delegated(v) = 0
        ELSE IF ~Progress.done /\ v \notin Progress.visited
             THEN B[v].delinquent_upgrader_active_balance = Delegated(v)
             ELSE B[v].active_balance = Delegated(v)
    BY DEF Visited
  <2> HIDE DEF B
  <2>2. CASE v = u
    <3>1. CASE unvisited
      BY <2>1, <2>2, <3>1, <1>1, <1>6, <1>8, <1>9
    <3>2. CASE ~unvisited
      BY <2>1, <2>2, <3>2, <1>1, <1>6, <1>8, <1>9
    <3> QED
      BY <3>1, <3>2
  <2>3. CASE v # u
    <3>1. Delegated(v)' = Delegated(v) /\ B'[v] = B[v]
      BY <2>3, <1>3, <1>6, <1>7
    <3> QED
      BY <2>1, <3>1
  <2> QED
    BY <2>2, <2>3
<1> QED
  BY <1>1, <1>10 DEF Visited

(* An active account of a validator changes its lamports, or is no more    *)
(* active: update_active, deactivate_stake, update_deactivated.            *)
LEMMA ActiveMoves ==
  ASSUME KeyedLists, KeyedLists', Visited, NEW s \in Stake,
         Progress.done, UNCHANGED Progress,
         R!Active(s), NEW lamports \in Nat,
         R!Balanced(voter[s], lamports - Held(stake_list)[s].lamports),
         \/ voter'[s] = voter[s] /\ Held(stake_list)'[s].active
              /\ Held(stake_list)'[s].lamports = lamports
         \/ lamports = 0 /\ ~Held(stake_list)'[s].active,
         \A y \in Stake \ {s} :
           \/ voter'[y] = voter[y] /\ Held(stake_list)'[y] = Held(stake_list)[y]
           \/ voter[y] = None /\ ~Held(stake_list)'[y].active
  PROVE  Visited'
<1> DEFINE h == Held(stake_list)
           u == voter[s]
           d == lamports - h[s].lamports
<1>1. voter \in Voters /\ h \in Accounts /\ \A v \in Validator : Delegated(v) \in Nat
  BY ByKeyTypes
<1>2. voter' \in Voters /\ h' \in Accounts
  BY ByKeyTypes, HeldType DEF KeyedLists, Voters, Accounts, Held
<1>3. /\ u \in Validator /\ h[s].active /\ h[s].lamports \in Nat /\ d \in Int
  BY <1>1 DEF R!Active, Voters, Accounts
<1>4. None \notin Validator
  BY ListsAssumption
<1>5. ASSUME NEW v \in Validator
      PROVE  Delegated(v)' = Delegated(v) + IF v = u THEN d ELSE 0
  <2> DEFINE f == Parts(voter, h, v)
             g == Parts(voter', h', v)
  <2>1. Delegated(v)' = Sum(g) /\ Delegated(v) = Sum(f)
    BY DEF Delegated, Parts
  <2>2. f \in [Stake -> Nat] /\ g \in [Stake -> Nat]
    <3> HIDE DEF h
    <3> QED
      BY <1>1, <1>2, PartsType
  <2>3. \A y \in Stake \ {s} : g[y] = f[y]
    <3> TAKE y \in Stake \ {s}
    <3>1. CASE voter'[y] = voter[y] /\ h'[y] = h[y]
      BY <3>1 DEF Parts
    <3>2. CASE voter[y] = None /\ ~h'[y].active
      BY <3>2, <1>4 DEF Parts
    <3> QED
      BY <3>1, <3>2
  <2>4. f[s] = IF v = u THEN h[s].lamports ELSE 0
    BY <1>3 DEF Parts
  <2>5. g[s] = IF v = u THEN lamports ELSE 0
    <3>1. CASE voter'[s] = u /\ h'[s].active /\ h'[s].lamports = lamports
      BY <3>1 DEF Parts
    <3>2. CASE lamports = 0 /\ ~h'[s].active
      BY <3>2 DEF Parts
    <3> QED
      BY <3>1, <3>2
  <2> HIDE DEF f, g
  <2>6. Sum(g) - g[s] = Sum(f) - f[s]
    BY <2>2, <2>3, SumUpdate, ListsAssumption
  <2>7. Sum(g) \in Nat /\ Sum(f) \in Nat
    BY <2>2, SumType, ListsAssumption
  <2> QED
    BY <2>1, <2>4, <2>5, <2>6, <2>7, <1>3
<1>6. R!Balanced(u, d)
  OBVIOUS
<1> HIDE DEF u, d
<1> QED
  BY <1>3, <1>5, <1>6, BothMove

(* An account grows or shrinks.                                            *)
LEMMA ChangeVisited ==
  ASSUME KeyedLists, KeyedLists', Visited, NEW s \in Stake,
         NEW lamports \in Lamports[s], R!Change(s, lamports)
  PROVE  Visited'
<1> DEFINE h == Held(stake_list)
<1>1. /\ R!Active(s) /\ Progress.done /\ UNCHANGED <<voter, Progress>>
      /\ R!Balanced(voter[s], lamports - h[s].lamports)
      /\ h' = [h EXCEPT ![s].lamports = lamports]
  BY DEF R!Change
<1>2. lamports \in Nat /\ h \in Accounts
  BY ByKeyTypes, ListsAssumption
<1> HIDE DEF h
<1>3. /\ \A y \in Stake \ {s} : h'[y] = h[y]
      /\ h'[s].active = h[s].active /\ h'[s].lamports = lamports
  BY <1>1, <1>2 DEF Accounts
<1>4. h[s].active
  BY <1>1 DEF R!Active, h
<1> QED
  BY <1>1, <1>2, <1>3, <1>4, ActiveMoves DEF h

(* It is deactivated.                                                      *)
LEMMA DeactivateVisited ==
  ASSUME KeyedLists, KeyedLists', Visited, NEW s \in Stake, R!Deactivate(s)
  PROVE  Visited'
<1> DEFINE h   == Held(stake_list)
           off == FALSE
<1>1. /\ R!Active(s) /\ Progress.done /\ UNCHANGED <<voter, Progress>>
      /\ R!Balanced(voter[s], -h[s].lamports)
      /\ h' = [h EXCEPT ![s].active = off]
  BY DEF R!Deactivate
<1>2. h \in Accounts
  BY ByKeyTypes
<1>3. -h[s].lamports = 0 - h[s].lamports
  BY <1>2 DEF Accounts
<1> HIDE DEF h, off
<1>4. /\ \A y \in Stake \ {s} : h'[y] = h[y]
      /\ h'[s].active = off
  BY <1>1, <1>2 DEF Accounts
<1>5. ~h'[s].active
  BY <1>4 DEF off
<1>6. R!Balanced(voter[s], 0 - h[s].lamports)
  BY <1>1, <1>3
<1> QED
  BY <1>1, <1>2, <1>4, <1>5, <1>6, ActiveMoves DEF h

(* A part of it is.                                                        *)
LEMMA SplitVisited ==
  ASSUME KeyedLists, KeyedLists', Visited, NEW s \in Stake, NEW new \in Stake,
         NEW lamports \in Lamports[new], R!Split(s, new, lamports)
  PROVE  Visited'
<1> DEFINE h    == Held(stake_list)
           off  == FALSE
           rest == h[s].lamports - lamports
           k    == [h EXCEPT ![s].lamports = rest]
<1>1. /\ R!Active(s) /\ voter[new] = None /\ Progress.done /\ UNCHANGED Progress
      /\ lamports < h[s].lamports /\ R!Balanced(voter[s], -lamports)
      /\ voter' = [voter EXCEPT ![new] = voter[s]]
      /\ h' = [h EXCEPT ![s].lamports = rest, ![new] = Account(lamports, off)]
  BY DEF R!Split, Account
<1>2. voter \in Voters /\ h \in Accounts /\ lamports \in Nat
  BY ByKeyTypes, ListsAssumption
<1>3. s # new /\ h[s].active
  BY <1>1 DEF R!Active
<1>4. h[s].lamports \in Nat /\ rest \in Nat /\ -lamports = rest - h[s].lamports
  BY <1>1, <1>2 DEF Accounts
<1> HIDE DEF h, off, rest
<1>5. /\ \A y \in Stake \ {s} : k[y] = h[y]
      /\ k[s].active = h[s].active /\ k[s].lamports = rest
      /\ DOMAIN k = Stake
  BY <1>2 DEF Accounts
<1>6. h' = [k EXCEPT ![new] = Account(lamports, off)]
  BY <1>1
<1> HIDE DEF k
<1>7. /\ \A y \in Stake \ {s, new} : h'[y] = h[y] /\ voter'[y] = voter[y]
      /\ h'[s].active = h[s].active /\ h'[s].lamports = rest /\ voter'[s] = voter[s]
      /\ h'[new] = Account(lamports, off)
  BY <1>1, <1>2, <1>3, <1>5, <1>6 DEF Voters
<1>8. ~h'[new].active
  BY <1>7 DEF Account, off
<1>9. R!Balanced(voter[s], rest - h[s].lamports)
  BY <1>1, <1>4
<1>10. \A y \in Stake \ {s} : \/ voter'[y] = voter[y] /\ h'[y] = h[y]
                              \/ voter[y] = None /\ ~h'[y].active
  BY <1>1, <1>7, <1>8
<1> QED
  BY <1>1, <1>3, <1>4, <1>7, <1>9, <1>10, ActiveMoves DEF h

(* Its record is removed.                                                  *)
LEMMA LeaveVisited ==
  ASSUME KeyedLists, KeyedLists', Visited, NEW s \in Stake, R!Leave(s)
  PROVE  Visited'
<1> DEFINE h   == Held(stake_list)
           B   == Balances(validator_list)
           off == FALSE
<1>1. /\ voter[s] # None /\ UNCHANGED Progress
      /\ IF h[s].active
         THEN Progress.done /\ R!Balanced(voter[s], -h[s].lamports)
         ELSE UNCHANGED B
      /\ voter' = [voter EXCEPT ![s] = None]
      /\ h' = [h EXCEPT ![s] = Account(0, off)]
  BY DEF R!Leave, R!Absent, Account
<1>2. voter \in Voters /\ h \in Accounts /\ \A v \in Validator : Delegated(v) \in Nat
  BY ByKeyTypes
<1>3. -h[s].lamports = 0 - h[s].lamports
  BY <1>2 DEF Accounts
<1> HIDE DEF h, off
<1>4. /\ \A y \in Stake \ {s} : h'[y] = h[y] /\ voter'[y] = voter[y]
      /\ h'[s] = Account(0, off)
  BY <1>1, <1>2 DEF Accounts, Voters
<1>5. ~h'[s].active
  BY <1>4 DEF Account, off
<1>6. CASE h[s].active
  <2>1. R!Active(s) /\ R!Balanced(voter[s], 0 - h[s].lamports) /\ Progress.done
    BY <1>1, <1>3, <1>6 DEF R!Active, h
  <2> QED
    BY <2>1, <1>1, <1>4, <1>5, ActiveMoves DEF h
<1>7. CASE ~h[s].active
  <2>1. ASSUME NEW v \in Validator PROVE Delegated(v)' = Delegated(v)
    <3>1. Parts(voter, h, v)[s] = 0 /\ Parts(voter', h', v)[s] = 0
      BY <1>5, <1>7 DEF Parts
    <3>2. Delegated(v)' = Delegated(v) - Parts(voter, h, v)[s] + Parts(voter', h', v)[s]
      BY <1>4, OneMoves DEF h
    <3> QED
      BY <3>1, <3>2, <1>2
  <2> QED
    BY <2>1, <1>1, <1>7, NothingMoves
<1> QED
  BY <1>6, <1>7

(* Two accounts of a validator become one, with the lamports of both.      *)
LEMMA MergeVisited ==
  ASSUME KeyedLists, KeyedLists', Visited, NEW u \in Validator, NEW s \in Stake,
         R!Merge(u, s)
  PROVE  Visited'
<1> DEFINE h     == Held(stake_list)
           off   == FALSE
           into  == CanonicalStake[u]
           total == h[into].lamports + h[s].lamports
           k     == [h EXCEPT ![into].lamports = total]
<1>1. /\ into \in Stake \ {s}
      /\ R!Active(s) /\ R!Active(into) /\ voter[s] = u /\ voter[into] = u
      /\ voter' = [voter EXCEPT ![s] = None]
      /\ h' = [h EXCEPT ![into].lamports = total, ![s] = Account(0, off)]
      /\ UNCHANGED <<Balances(validator_list), Progress>>
  BY DEF R!Merge, R!Absent, Account
<1>2. /\ voter \in Voters /\ h \in Accounts
      /\ \A v \in Validator : Delegated(v) \in Nat
  BY ByKeyTypes
<1>3. h[s].active /\ h[into].active
  BY <1>1 DEF R!Active
<1>4. h[s].lamports \in Nat /\ h[into].lamports \in Nat /\ into \in Stake
  BY <1>1, <1>2 DEF Accounts
<1> HIDE DEF h, off, into
<1>5. /\ \A y \in Stake \ {into} : k[y] = h[y]
      /\ k[into].active = h[into].active /\ k[into].lamports = total
      /\ DOMAIN k = Stake
  BY <1>2, <1>4 DEF Accounts
<1>6. h' = [k EXCEPT ![s] = Account(0, off)]
  BY <1>1
<1> HIDE DEF k
<1>7. /\ \A y \in Stake \ {s, into} : h'[y] = h[y] /\ voter'[y] = voter[y]
      /\ h'[into].active /\ h'[into].lamports = total /\ voter'[into] = u
      /\ h'[s] = Account(0, off)
  BY <1>1, <1>2, <1>3, <1>5, <1>6 DEF Voters
<1>8. ~h'[s].active
  BY <1>7 DEF Account, off
<1>9. ASSUME NEW v \in Validator PROVE Delegated(v)' = Delegated(v)
  <2>1. /\ Parts(voter, h, v)[s] = IF v = u THEN h[s].lamports ELSE 0
        /\ Parts(voter, h, v)[into] = IF v = u THEN h[into].lamports ELSE 0
    BY <1>1, <1>3, <1>4 DEF Parts
  <2>2. /\ Parts(voter', h', v)[s] = 0
        /\ Parts(voter', h', v)[into] = IF v = u THEN total ELSE 0
    BY <1>4, <1>7, <1>8 DEF Parts
  <2>3. Delegated(v)' = Delegated(v) - Parts(voter, h, v)[s] - Parts(voter, h, v)[into]
                          + Parts(voter', h', v)[s] + Parts(voter', h', v)[into]
    <3>1. s # into /\ into \in Stake
      BY <1>1, <1>4, <1>7
    <3>2. \A y \in Stake \ {s, into} :
            voter'[y] = voter[y] /\ Held(stake_list)'[y] = Held(stake_list)[y]
      BY <1>7 DEF h
    <3> QED
      BY <3>1, <3>2, TwoMove DEF h
  <2> QED
    BY <2>1, <2>2, <2>3, <1>2, <1>4
<1> QED
  BY <1>1, <1>9, NothingMoves

(* An account's lamports move to the canonical address.                    *)
LEMMA RenameVisited ==
  ASSUME KeyedLists, KeyedLists', Visited, NEW u \in Validator, NEW s \in Stake,
         R!Rename(u, s)
  PROVE  Visited'
<1> DEFINE h    == Held(stake_list)
           off  == FALSE
           into == CanonicalStake[u]
           k    == [h EXCEPT ![into] = h[s]]
<1>1. /\ into \in Stake /\ R!Active(s) /\ voter[s] = u /\ voter[into] = None
      /\ voter' = [voter EXCEPT ![into] = u, ![s] = None]
      /\ h' = [h EXCEPT ![into] = h[s], ![s] = Account(0, off)]
      /\ UNCHANGED <<Balances(validator_list), Progress>>
  BY DEF R!Rename, R!Absent, Account
<1>2. /\ voter \in Voters /\ h \in Accounts
      /\ \A v \in Validator : Delegated(v) \in Nat
  BY ByKeyTypes
<1>3. h[s].active /\ s # into /\ None \notin Validator
  BY <1>1, ListsAssumption DEF R!Active
<1>4. h[s].lamports \in Nat
  BY <1>2 DEF Accounts
<1> HIDE DEF h, off, into
<1>5. /\ \A y \in Stake \ {into} : k[y] = h[y]
      /\ k[into] = h[s] /\ DOMAIN k = Stake
  BY <1>1, <1>2 DEF Accounts
<1>6. h' = [k EXCEPT ![s] = Account(0, off)]
  BY <1>1
<1> HIDE DEF k
<1>7. /\ \A y \in Stake \ {s, into} : h'[y] = h[y] /\ voter'[y] = voter[y]
      /\ h'[into] = h[s] /\ voter'[into] = u
      /\ h'[s] = Account(0, off)
  BY <1>1, <1>2, <1>3, <1>5, <1>6 DEF Voters
<1>8. ~h'[s].active
  BY <1>7 DEF Account, off
<1>9. ASSUME NEW v \in Validator PROVE Delegated(v)' = Delegated(v)
  <2>1. /\ Parts(voter, h, v)[s] = IF v = u THEN h[s].lamports ELSE 0
        /\ Parts(voter, h, v)[into] = 0
    BY <1>1, <1>3, <1>4 DEF Parts
  <2>2. /\ Parts(voter', h', v)[s] = 0
        /\ Parts(voter', h', v)[into] = IF v = u THEN h[s].lamports ELSE 0
    BY <1>1, <1>3, <1>7, <1>8 DEF Parts
  <2>3. Delegated(v)' = Delegated(v) - Parts(voter, h, v)[s] - Parts(voter, h, v)[into]
                          + Parts(voter', h', v)[s] + Parts(voter', h', v)[into]
    <3>1. s # into /\ into \in Stake
      BY <1>1, <1>3, <1>7
    <3>2. \A y \in Stake \ {s, into} :
            voter'[y] = voter[y] /\ Held(stake_list)'[y] = Held(stake_list)[y]
      BY <1>7 DEF h
    <3> QED
      BY <3>1, <3>2, TwoMove DEF h
  <2> QED
    BY <2>1, <2>2, <2>3, <1>2, <1>4
<1> QED
  BY <1>1, <1>9, NothingMoves

(* A validator comes without stake, and goes without stake.                *)
LEMMA ListingVisited ==
  ASSUME KeyedLists, Visited, NEW u \in Validator,
         R!AddValidator(u) \/ R!RemoveValidator(u)
  PROVE  Visited'
<1> DEFINE B   == Balances(validator_list)
           on  == TRUE
           off == FALSE
<1>1. Progress.done /\ UNCHANGED <<voter, Held(stake_list), Progress>>
  BY DEF R!AddValidator, R!RemoveValidator
<1>2. \A v \in Validator : Delegated(v)' = Delegated(v)
  BY <1>1 DEF Delegated, Parts
<1>3. DOMAIN B = Validator
  BY DEF Balances
<1>4. \A v \in Validator : IF ~B[v].listed THEN Delegated(v) = 0
                           ELSE B[v].active_balance = Delegated(v)
  BY <1>1 DEF Visited
<1>5. \A v \in Validator : ~B[v].listed => B[v].active_balance = 0
  BY DEF Balances
<1>6. /\ \A v \in Validator \ {u} : B'[v] = B[v]
      /\ Delegated(u) = 0 /\ B'[u].active_balance = 0
  <2>1. CASE R!AddValidator(u)
    <3>1. ~B[u].listed /\ B' = [B EXCEPT ![u].listed = on]
      BY <2>1 DEF R!AddValidator, R!Listed
    <3>2. B[u] = [active_balance |-> B[u].active_balance,
                  delinquent_upgrader_active_balance |->
                    B[u].delinquent_upgrader_active_balance,
                  listed |-> B[u].listed]
      BY DEF Balances
    <3> HIDE DEF B, on
    <3>3. B'[u].active_balance = B[u].active_balance
      BY <3>1, <3>2, <1>3
    <3> QED
      BY <3>1, <3>3, <1>3, <1>4, <1>5
  <2>2. CASE R!RemoveValidator(u)
    <3>1. /\ B[u].active_balance = 0 /\ B[u].listed
          /\ B' = [B EXCEPT ![u] = R!NoBalance]
      BY <2>2 DEF R!RemoveValidator, R!Listed
    <3>2. R!NoBalance.active_balance = 0
      BY DEF R!NoBalance
    <3> HIDE DEF B
    <3> QED
      BY <3>1, <3>2, <1>3, <1>4
  <2> QED
    BY <2>1, <2>2
<1> HIDE DEF B
<1>7. \A v \in Validator : IF ~B'[v].listed THEN Delegated(v)' = 0
                           ELSE B'[v].active_balance = Delegated(v)'
  BY <1>2, <1>4, <1>6
<1>8. Progress'.done
  BY <1>1
<1> QED
  BY <1>7, <1>8 DEF Visited, B

(* A batch of validators gets the balances the upgrade has counted.        *)
LEMMA BatchVisited ==
  ASSUME KeyedLists, Visited, NEW batch \in SUBSET Validator, R!Finalize(batch)
  PROVE  Visited'
<1> DEFINE B   == Balances(validator_list)
           now == Progress.visited \cup batch
           old(v) == B[v].active_balance
           new(v) == B[v].delinquent_upgrader_active_balance
           excess == [v \in batch |-> old(v) - new(v)]
           left   == Progress.left - R!Sum(excess)
<1>1. /\ ~Progress.done
      /\ \A v \in batch : B[v].listed /\ v \notin Progress.visited
      /\ B' = [v \in Validator |->
           IF v \in batch THEN WithBoth(B[v], old(v) - excess[v], 0) ELSE B[v]]
      /\ IF \A v \in Validator : B[v].listed => v \in now
         THEN Progress' = R!Done
         ELSE Progress' = [Progress EXCEPT !.visited = now, !.left = left]
      /\ UNCHANGED <<voter, Held(stake_list)>>
  BY Zenon DEF R!Finalize, R!Listed, WithBoth
<1>2. \A v \in Validator : Delegated(v)' = Delegated(v)
  BY <1>1 DEF Delegated, Parts
<1>3. \A v \in Validator : old(v) \in Nat /\ new(v) \in Nat
  BY ByKeyTypes
<1>4. \A v \in Validator : IF ~B[v].listed THEN Delegated(v) = 0
                           ELSE IF v \notin Progress.visited
                           THEN new(v) = Delegated(v)
                           ELSE B[v].active_balance = Delegated(v)
  BY <1>1 DEF Visited
<1>5. ASSUME NEW v \in batch
      PROVE  B'[v].listed /\ B'[v].active_balance = Delegated(v)
  <2>1. PICK a, b : B[v] = Balance(a, b)
    BY <1>1 DEF Balances, Balance
  <2>2. B'[v] = WithBoth(B[v], old(v) - excess[v], 0)
    <3> HIDE DEF B, old, excess
    <3> QED
      BY <1>1
  <2>3. B'[v] = Balance(old(v) - excess[v], 0)
    BY <2>1, <2>2, BalanceChanged
  <2>4. old(v) - excess[v] = new(v)
    <3>1. excess[v] = old(v) - new(v)
      OBVIOUS
    <3> HIDE DEF old, new, excess
    <3> QED
      BY <3>1, <1>3
  <2>5. new(v) = Delegated(v)
    BY <1>1, <1>4
  <2> HIDE DEF old, new, excess, B
  <2> QED
    BY <2>3, <2>4, <2>5 DEF Balance
<1>6. \A v \in Validator \ batch : B'[v] = B[v]
  BY <1>1
<1>7. \/ Progress'.done /\ \A v \in Validator : B[v].listed => v \in now
      \/ ~Progress'.done /\ Progress'.visited = now
  <2>1. CASE \A v \in Validator : B[v].listed => v \in now
    <3>1. Progress' = R!Done
      BY <2>1, <1>1
    <3> QED
      BY <2>1, <3>1 DEF R!Done
  <2>2. CASE ~\A v \in Validator : B[v].listed => v \in now
    <3>1. Progress' = [Progress EXCEPT !.visited = now, !.left = left]
      BY <2>2, <1>1
    <3>2. PICK a, b : Progress = Stage(IsDone, a, b)
      BY DEF Progress, Stage
    <3>3. Progress' = Stage(IsDone, now, left)
      <4> HIDE DEF now, left
      <4>1. Progress' = Advanced(Progress, now, left)
        BY <3>1, Zenon DEF Advanced
      <4> QED
        BY <3>2, <4>1, StageAdvanced
    <3>4. Progress.done = IsDone
      BY DEF Progress
    <3> HIDE DEF now, left
    <3> QED
      BY <3>3, <3>4, <1>1 DEF Stage
  <2> QED
    BY <2>1, <2>2
<1> HIDE DEF B, old, new
<1>8. ASSUME NEW v \in Validator
      PROVE  IF ~B'[v].listed THEN Delegated(v)' = 0
             ELSE IF ~Progress'.done /\ v \notin Progress'.visited
             THEN B'[v].delinquent_upgrader_active_balance = Delegated(v)'
             ELSE B'[v].active_balance = Delegated(v)'
  <2>1. CASE v \in batch
    <3>1. ~Progress'.done => v \in Progress'.visited
      BY <2>1, <1>7
    <3> QED
      BY <2>1, <3>1, <1>2, <1>5
  <2>2. CASE v \notin batch
    <3>1. B'[v] = B[v] /\ Delegated(v)' = Delegated(v)
      BY <2>2, <1>2, <1>6
    <3>2. Progress'.done /\ B[v].listed => v \in Progress.visited
      BY <2>2, <1>7
    <3>3. ~Progress'.done => (v \in Progress'.visited <=> v \in Progress.visited)
      BY <2>2, <1>7
    <3> QED
      BY <3>1, <3>2, <3>3, <1>4 DEF new
  <2> QED
    BY <2>1, <2>2
<1> QED
  BY <1>8 DEF Visited, B

(* At the start there is no stake, or the one account the upgrade found.   *)
LEMMA VisitedStart ==
  ASSUME Init
  PROVE  Visited
<1> DEFINE f(v) == Parts(voter, Held(stake_list), v)
<1>1. /\ KeyedLists /\ Progress.visited = {}
      /\ \A v \in Validator : f(v) \in [Stake -> Nat] /\ Delegated(v) = Sum(f(v))
  <2>1. KeyedLists /\ Progress.visited = {}
    BY ListsStart DEF R!Init
  <2> QED
    BY <2>1, ByKeyTypes, PartsType DEF Delegated
<1>2. \A v \in Validator :
        ~Balances(validator_list)[v].listed <=> v \notin Keys(validator_list)
  BY DEF Balances
<1>3. CASE InitEmpty
  <2>1. /\ voter = [s \in Stake |-> None] /\ Keys(validator_list) = {}
    BY <1>1, <1>3 DEF InitEmpty, KeyedLists
  <2>2. \A v \in Validator : \A s \in Stake : f(v)[s] = 0
    BY <2>1, ListsAssumption DEF Parts
  <2> HIDE DEF f
  <2>3. \A v \in Validator : Delegated(v) = 0
    BY <2>2, <1>1, SumZero
  <2> QED
    BY <2>1, <2>3, <1>2 DEF Visited
<1>4. CASE InitUpgrade
  <2>1. PICK s \in Stake, u \in Validator, lamports \in Nat : OneFound(s, u, lamports)
    BY <1>4, UpgradeKeyed
  <2>2. ASSUME NEW v \in Validator
        PROVE  Delegated(v) = IF v = u THEN lamports ELSE 0
    <3> DEFINE g == [a \in Stake |-> 0]
    <3>1. f(v)[s] = IF v = u THEN lamports ELSE 0
      BY <2>1 DEF OneFound, Parts
    <3>2. \A a \in Stake \ {s} : f(v)[a] = g[a]
      BY <2>1, ListsAssumption DEF OneFound, Parts
    <3>3. g \in [Stake -> Nat] /\ \A a \in Stake : g[a] = 0
      OBVIOUS
    <3> HIDE DEF f, g
    <3>4. Sum(g) = 0
      BY <3>3, SumZero
    <3>5. Sum(f(v)) - f(v)[s] = Sum(g) - g[s]
      BY <3>2, <3>3, <1>1, SumUpdate, ListsAssumption
    <3>6. Sum(f(v)) \in Nat /\ f(v)[s] \in Nat /\ Delegated(v) = Sum(f(v))
      <4>1. f(v) \in [Stake -> Nat] /\ Delegated(v) = Sum(f(v))
        BY <1>1
      <4> QED
        BY <4>1, SumType, ListsAssumption
    <3>7. g[s] = 0
      BY <3>3
    <3>8. Delegated(v) = f(v)[s]
      BY <3>4, <3>5, <3>6, <3>7
    <3> QED
      BY <3>1, <3>8
  <2>3. ASSUME NEW v \in Validator
        PROVE  /\ Balances(validator_list)[v].listed
               /\ Balances(validator_list)[v].delinquent_upgrader_active_balance
                    = IF v = u THEN lamports ELSE 0
    <3>1. v \in Keys(validator_list)
      BY <2>1 DEF OneFound
    <3>2. PICK j \in Used(validator_list) : validator_list.slot[j].key = v
      BY <3>1 DEF Keys, Used, Get
    <3>3. validator_list.slot[j].delinquent_upgrader_active_balance
            = IF v = u THEN lamports ELSE 0
      BY <2>1, <3>2 DEF OneFound
    <3>4. RecordOf(validator_list, v) = validator_list.slot[j]
      BY <1>1, <3>2, FindRecord DEF KeyedLists, IsValidatorList
    <3> QED
      BY <3>1, <3>3, <3>4 DEF Balances
  <2>4. ~Progress.done
    BY <2>1 DEF OneFound, Progress
  <2> QED
    BY <2>2, <2>3, <2>4, <1>1 DEF Visited
<1> QED
  BY <1>3, <1>4 DEF Init

(* Every step keeps the balances.                                          *)
LEMMA StepsKeepVisited ==
  ASSUME KeyedLists, KeyedLists', Visited, [R!Next]_(R!vars)
  PROVE  Visited'
<1>1. ASSUME NEW s \in Stake, NEW v \in Validator,
             \E lamports \in Lamports[s] : R!Enter(s, v, lamports)
      PROVE  Visited'
  BY <1>1, EnterVisited
<1>2. ASSUME NEW s \in Stake, \E lamports \in Lamports[s] : R!Change(s, lamports)
      PROVE  Visited'
  BY <1>2, ChangeVisited
<1>3. ASSUME NEW s \in Stake, R!Deactivate(s)
      PROVE  Visited'
  BY <1>3, DeactivateVisited
<1>4. ASSUME NEW s \in Stake, NEW new \in Stake,
             \E lamports \in Lamports[new] : R!Split(s, new, lamports)
      PROVE  Visited'
  BY <1>4, SplitVisited
<1>5. ASSUME NEW s \in Stake, R!Leave(s)
      PROVE  Visited'
  BY <1>5, LeaveVisited
<1>6. ASSUME NEW v \in Validator, NEW s \in Stake, R!Merge(v, s) \/ R!Rename(v, s)
      PROVE  Visited'
  BY <1>6, MergeVisited, RenameVisited
<1>7. ASSUME NEW v \in Validator, R!AddValidator(v) \/ R!RemoveValidator(v)
      PROVE  Visited'
  BY <1>7, ListingVisited
<1>8. ASSUME NEW batch \in SUBSET Validator, R!Finalize(batch)
      PROVE  Visited'
  BY <1>8, BatchVisited
<1>9. CASE UNCHANGED R!vars
  <2>1. UNCHANGED <<voter, Held(stake_list), Balances(validator_list), Progress>>
    BY <1>9 DEF R!vars
  <2>2. \A v \in Validator : Delegated(v)' = Delegated(v)
    BY <2>1 DEF Delegated, Parts
  <2> QED
    BY <2>1, <2>2, NothingMoves
<1> QED
  BY <1>1, <1>2, <1>3, <1>4, <1>5, <1>6, <1>7, <1>8, <1>9, Zenon DEF R!Next

(* What the list has for a validator is what is delegated to it.           *)
LEMMA StakeByKey ==
  ASSUME KeyedLists, NEW v \in Validator
  PROVE  StakeOf(v) = Delegated(v)
<1> DEFINE list == stake_list
           h    == Held(list)
           key  == [i \in Used(list) |-> list.slot[i].key]
           byIndex == [i \in Used(list) |->
                         IF StakeAt(i).active /\ voter[StakeAt(i).key] = v
                         THEN StakeAt(i).lamports ELSE 0]
           all   == Parts(voter, h, v)
           byKey == [s \in Keys(list) |-> all[s]]
<1>1. /\ IsStakeList(list) /\ Distinct(list) /\ IsList(list, StakeRecords)
      /\ Keys(list) \subseteq Stake
      /\ Keys(list) = {list.slot[i].key : i \in Used(list)}
  BY DEF KeyedLists, IsStakeList, Keys, Used, Get
<1>2. list.count \in Nat /\ IsFiniteSet(Used(list))
  <2>1. list.count \in Nat
    BY <1>1, KeysCount
  <2> QED
    BY <2>1, IndexCount, Zenon DEF Used
<1>3. key \in Bijection(Used(list), Keys(list))
  BY <1>1 DEF Distinct, Bijection, Injection, Surjection, IsInjective
<1>4. ASSUME NEW i \in Used(list)
      PROVE  /\ list.slot[i] \in StakeRecords
             /\ h[list.slot[i].key].active = list.slot[i].active
             /\ h[list.slot[i].key].lamports = list.slot[i].lamports
  <2>1. i \in Nat /\ InList(list, i)
    BY <1>2 DEF Used, InList
  <2>2. /\ Get(list, i) \in StakeRecords /\ Get(list, i).key \in Keys(list)
        /\ RecordOf(list, Get(list, i).key) = Get(list, i)
    BY <2>1, <1>1, RecordType
  <2> QED
    BY <2>2, <1>1 DEF Held, Get
<1>5. all \in [Stake -> Nat]
  BY ByKeyTypes, PartsType
<1>6. byKey \in [Keys(list) -> Nat] /\ \A s \in Keys(list) : byKey[s] = all[s]
  BY <1>1, <1>5
<1>7. \A s \in Stake \ Keys(list) : all[s] = 0
  BY DEF Held, Parts
<1>8. \A i \in Used(list) : key[i] \in Keys(list) /\ byKey[key[i]] = byIndex[i]
  <2> TAKE i \in Used(list)
  <2> DEFINE s == list.slot[i].key
  <2>1. key[i] = s /\ s \in Keys(list) /\ s \in Stake
    BY <1>1
  <2>2. all[s] = IF voter[s] = v /\ list.slot[i].active THEN list.slot[i].lamports ELSE 0
    BY <2>1, <1>4 DEF Parts
  <2>3. byIndex[i] = IF list.slot[i].active /\ voter[s] = v
                     THEN list.slot[i].lamports ELSE 0
    BY DEF StakeAt, Get
  <2> HIDE DEF s, key, byIndex, all
  <2> QED
    BY <2>1, <2>2, <2>3
<1>9. byIndex \in [Used(list) -> Nat]
  BY <1>4 DEF StakeAt, Get, StakeRecords
<1>10. StakeOf(v) = Sum(byIndex)
  BY DEF StakeOf, Used
<1>11. Delegated(v) = Sum(all)
  BY DEF Delegated
<1> HIDE DEF key, byIndex, byKey, all, list, h
<1>12. Sum(byKey) = Sum(byIndex)
  <2>1. \A T : \A g \in [T -> Nat] : \A b \in Bijection(Used(list), T) :
          (\A x \in Used(list) : g[b[x]] = byIndex[x]) => Sum(g) = Sum(byIndex)
    BY <1>2, <1>9, SumReindex
  <2> QED
    BY <2>1, <1>3, <1>6, <1>8
<1>13. Sum(byKey) = Sum(all)
  BY <1>1, <1>5, <1>6, <1>7, SumExtend
<1> QED
  BY <1>10, <1>11, <1>12, <1>13

(* Whatever the batches the upgrade is cut into, and whatever comes between *)
(* them, each validator is visited exactly once: from then on its balance   *)
(* is that of its active records, and until then the other balance is.      *)
THEOREM ValidatorsAreVisitedOnce == Spec => []EveryValidatorVisitedOnce
<1>1. Init => Visited
  BY VisitedStart
<1>2. KeyedLists /\ KeyedLists' /\ Visited /\ [Next]_vars => Visited'
  BY ListsSteps, StepsKeepVisited
<1>3. Spec => []Visited
  BY <1>1, <1>2, ListsStayKeyed, PTL DEF Spec
<1>4. ASSUME KeyedLists, Visited PROVE EveryValidatorVisitedOnce
  <2> SUFFICES ASSUME NEW j \in Used(validator_list)
               PROVE  LET record == ValidatorAt(j)
                      IN IF ~IsDone /\ j >= delinquent_upgrader.visited_count
                         THEN record.delinquent_upgrader_active_balance
                                = StakeOf(record.key)
                         ELSE record.active_balance = StakeOf(record.key)
    BY DEF EveryValidatorVisitedOnce, Used
  <2> DEFINE list   == validator_list
             record == ValidatorAt(j)
             b      == Balances(list)[record.key]
  <2>1. j \in Nat /\ InList(list, j) /\ IsValidatorList(list)
    BY <1>4, VisitPlace DEF Used, InList, KeyedLists
  <2>2. /\ record.key \in Validator
        /\ b = Balance(record.active_balance, record.delinquent_upgrader_active_balance)
    BY <2>1, BalanceFound DEF ValidatorAt
  <2>3. VisitPending(j) <=> ~Progress.done /\ record.key \notin Progress.visited
    BY <2>1, <1>4, PendingUnvisited DEF GetChecked, ValidatorAt
  <2>4. StakeOf(record.key) = Delegated(record.key)
    BY <2>2, <1>4, StakeByKey
  <2>5. IF ~b.listed
        THEN Delegated(record.key) = 0
        ELSE IF VisitPending(j)
             THEN b.delinquent_upgrader_active_balance = Delegated(record.key)
             ELSE b.active_balance = Delegated(record.key)
    BY <2>2, <2>3, <1>4 DEF Visited
  <2> HIDE DEF record, b
  <2>6. /\ b.listed /\ b.active_balance = record.active_balance
        /\ b.delinquent_upgrader_active_balance
             = record.delinquent_upgrader_active_balance
    BY <2>2 DEF Balance
  <2> QED
    BY <2>4, <2>5, <2>6 DEF VisitPending, record
<1> QED
  BY <1>3, <1>4, ListsStayKeyed, PTL
=============================================================================
