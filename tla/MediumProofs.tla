---------------------------- MODULE MediumProofs ----------------------------
(***************************************************************************)
(* What the filesystem calls of Medium return and preserve: lemmas for the *)
(* proofs about each of the programs that use the medium.                  *)
(***************************************************************************)
EXTENDS Medium, SequenceTheorems, TLAPS

\* Adding a pair of the right type to a map gives a map of that type.
LEMMA PutType ==
  ASSUME NEW S, NEW T, NEW m, IsMap(m, S, T), NEW k \in S, NEW v \in T
  PROVE  IsMap(Put(m, k, v), S, T)
BY DEF IsMap, Put

\* So does taking away a key.
LEMMA DropType ==
  ASSUME NEW S, NEW T, NEW m, IsMap(m, S, T), NEW k
  PROVE  IsMap(Drop(m, k), S, T)
BY DEF IsMap, Drop

\* So does changing the value of a key, if the map has it.
LEMMA ExceptType ==
  ASSUME NEW S, NEW T, NEW m, IsMap(m, S, T),
         NEW k, NEW v, k \in DOMAIN m => v \in T
  PROVE  IsMap([m EXCEPT ![k] = v], S, T)
BY DEF IsMap

\* Writing a block to a file leaves a file.
LEMMA WriteAtType ==
  ASSUME NEW d \in Bytes, NEW off \in Nat, NEW b \in Byte
  PROVE  WriteAt(d, off, b) \in Bytes
<1> DEFINE n == IF off < Len(d) THEN Len(d) ELSE off + 1
<1>1. d \in [1..Len(d) -> Byte] /\ Len(d) \in Nat
  BY LenProperties DEF Bytes
<1>2. n \in Nat
  BY <1>1
<1>3. WriteAt(d, off, b) \in [1..n -> Byte]
  BY <1>1, <1>2, NamesAssumption DEF WriteAt
<1>. QED
  BY <1>2, <1>3, SeqDef DEF Bytes

\* A descriptor whose file loses or changes its name stays a descriptor.
LEMMA MovedType ==
  ASSUME wfd \in [Host -> {None} \cup WriteFd], NEW h,
         NEW to \in [{"tmp", "obj", "gone"} -> {"tmp", "obj", "gone"}]
  PROVE  Moved(h, to) \in [Host -> {None} \cup WriteFd]
BY DEF Moved, WriteFd

\* An index that was just created or truncated is an index.
LEMMA EmptyIndexType == EmptyIndex \in IndexFile
BY DEF EmptyIndex, IndexFile

\* Bytes hash to the name of an object.
LEMMA HashType == ASSUME NEW d \in Bytes PROVE Hash(d) \in HashName
BY DEF Hash, HashName

\* The hashes of an index are hashes: None is not one.
LEMMA HashesOfType ==
  ASSUME NEW x \in IndexFile PROVE HashesOf(x) \in SUBSET HashName
BY DEF IndexFile, HashesOf

\* What was a .tmp is an object now, and descriptors follow it.
LEMMA RenameTmpType ==
  ASSUME MediumTypeOK, NEW h \in HashName, RenameTmp(h)
  PROVE  /\ IsMap(objs', HashName, Bytes) /\ IsMap(tmps', HashName, Bytes)
         /\ wfd' \in [Host -> {None} \cup WriteFd]
<1>1. IsMap(objs, HashName, Bytes) /\ IsMap(tmps, HashName, Bytes)
  BY DEF MediumTypeOK
<1>2. tmps[h] \in Bytes
  BY <1>1 DEF IsMap, RenameTmp
<1>3. wfd \in [Host -> {None} \cup WriteFd]
  BY DEF MediumTypeOK
<1>4. wfd' \in [Host -> {None} \cup WriteFd]
  BY <1>3, MovedType DEF RenameTmp
<1>. QED BY <1>1, <1>2, <1>4, PutType, DropType DEF RenameTmp

\* Removing an object keeps the types of the repository and descriptors.
LEMMA RemoveObjType ==
  ASSUME MediumTypeOK, NEW h, RemoveObj(h)
  PROVE  IsMap(objs', HashName, Bytes) /\ wfd' \in [Host -> {None} \cup WriteFd]
<1>1. wfd \in [Host -> {None} \cup WriteFd]
  BY DEF MediumTypeOK
<1>. QED BY <1>1, DropType, MovedType
         DEF MediumTypeOK, RemoveObj

\* So does removing a .tmp.
LEMMA RemoveTmpType ==
  ASSUME MediumTypeOK, NEW h, RemoveTmp(h)
  PROVE  IsMap(tmps', HashName, Bytes) /\ wfd' \in [Host -> {None} \cup WriteFd]
<1>1. wfd \in [Host -> {None} \cup WriteFd]
  BY DEF MediumTypeOK
<1>. QED BY <1>1, DropType, MovedType
         DEF MediumTypeOK, RemoveTmp

\* What is there before any program ran.
LEMMA MediumInitType ==
  ASSUME MediumInit PROVE MediumTypeOK
<1>1. src \in [Host -> [File -> SourceFile]]
  <2> DEFINE fresh == [data : Content, stamp : {0}, again : {FALSE}]
  <2>1. ASSUME NEW x \in fresh PROVE x \in SourceFile
    <3>1. x.data \in Bytes /\ x.stamp \in Nat /\ x.again \in BOOLEAN
      <4>1. x.data \in Content /\ x.stamp = 0 /\ x.again = FALSE
        BY <2>1
      <4>2. Content \subseteq Bytes
        BY NamesAssumption DEF Bytes
      <4>3. x.again \in BOOLEAN
        BY <4>1, Zenon
      <4>4. x.data \in Bytes /\ x.stamp \in Nat
        BY <4>1, <4>2
      <4>. QED BY <4>3, <4>4
    <3>2. x = [data |-> x.data, stamp |-> x.stamp, again |-> x.again]
      BY <2>1
    <3>. QED BY <3>1, <3>2 DEF SourceFile
  <2>. QED BY <2>1 DEF MediumInit
<1>2. /\ IsMap(EmptyMap, IndexName, IndexFile)
      /\ IsMap(EmptyMap, HashName, Bytes)
  BY DEF IsMap, EmptyMap
<1>. QED
  BY <1>1, <1>2 DEF MediumInit, MediumTypeOK, NoHints, Hints
=============================================================================
