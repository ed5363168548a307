------------------------ MODULE DiskRegistryProofs -------------------------
(***************************************************************************)
(* The registry of net disks and its file (DiskRegistry.tla): what is      *)
(* saved is what a restart reads back, an interrupted save leaves a        *)
(* beginning of the registry, and a token goes to the disk that was        *)
(* listed, for any number of disks and any names.                          *)
(***************************************************************************)
EXTENDS DiskRegistry, SequenceFacts, TLAPS

(* A disk's name is some entry's key, and the entry's own when it has or   *)
(* asks for a token; a disk that can do neither is a new one, whose script *)
(* is loaded.                                                              *)
Sound ==
    \A i \in 1 .. Len(disks) : disks[i].value # NULL =>
        /\ Has(disks, disks[i].value.nickname)
        /\ disks[i].value.token = NULL => disks[i].value.type \in scripts
        /\ ~mixed /\ disks[i].value.token # NULL => disks[i].value.nickname = disks[i].key

(* Where a save is, that it has not come to a lost value yet, and that     *)
(* nothing waits when the process is gone.                                 *)
Whole ==
    /\ pc # "save" => at = 0 /\ field = 0
    /\ pc = "delete" => disks # << >>
    /\ pc = "down" => calls = << >>
    /\ NoLostValueAtRest
    /\ pc = "save" => /\ \A i \in 1 .. at - 1 : disks[i].value # NULL
                      /\ field > 1 => disks[at].value # NULL

(* Two disks that differ in their tokens at most.                          *)
SameDisk(v, w) == [v EXCEPT !.token = w.token] = w

(* What a waiting call goes by, in a registry d, with scripts s: the disk  *)
(* a dialog would store is new; the entry an authorization is for is still *)
(* there, went by its own key unless tokens are mixed (m), and has the     *)
(* same disk unless it was replaced.                                       *)
Fine(c, d, s, m) ==
    /\ c.is = "confirm" => c.disk.token = NULL /\ c.disk.type \in s
    /\ c.is = "auth" =>
          /\ Has(d, c.entry.key)
          /\ ~m => c.entry.value.nickname = c.entry.key
          /\ ~c.replaced => SameDisk(d[PlaceOf(d, c.entry.key)].value, c.entry.value)

Asked == \A i \in 1 .. Len(calls) : Fine(calls[i], disks, scripts, mixed)

(* The section of an entry, its first n - 1 fields written.                *)
Written(e, n) ==
    [name |-> e.key,
     type |-> IF n > 1 THEN e.value.type ELSE NULL,
     username |-> IF n > 2 THEN e.value.username ELSE NULL,
     nickname |-> IF n > 3 THEN e.value.nickname ELSE NULL,
     token |-> IF n > 4 THEN e.value.token ELSE NULL,
     secret |-> IF n > 5 THEN e.value.secret ELSE NULL]

(* The file f of a save of registry d that has come to field n of entry a. *)
SoFar(f, d, a, n) ==
    /\ Len(f) = IF n > 1 THEN a ELSE a - 1
    /\ \A i \in 1 .. Len(f) : f[i] = Written(d[i], IF i < a THEN 6 ELSE n)

(* What the file holds: in the middle of a save, and at rest.              *)
Filed ==
    /\ RestartKeepsDisks
    /\ pc = "save" /\ refused = 0 /\ ~Clash(disks) => SoFar(file, disks, at, field)

IInv == TypeOK /\ Sound /\ Whole /\ Asked /\ Filed

-----------------------------------------------------------------------------
(* Where a key is found, it is, and nowhere before.                        *)
LEMMA Place ==
  ASSUME NEW es \in Seq(Entries), NEW k, Has(es, k)
  PROVE  /\ PlaceOf(es, k) \in 1 .. Len(es) /\ es[PlaceOf(es, k)].key = k
         /\ \A j \in 1 .. Len(es) : es[j].key = k => PlaceOf(es, k) <= j
  <1> DEFINE T == {i \in 1 .. Len(es) : es[i].key = k}
  <1>1. DOMAIN es = 1 .. Len(es) /\ Len(es) \in Nat
    OBVIOUS
  <1>2. T \in SUBSET Nat /\ T # {}
    BY <1>1 DEF Has
  <1> HIDE DEF T
  <1>3. PICK i \in T : \A j \in T : i <= j
    BY <1>2, Least
  <1>4. i \in DOMAIN es /\ es[i].key = k /\ \A j \in DOMAIN es : es[j].key = k => i <= j
    BY <1>1, <1>3 DEF T
  <1> QED
    BY <1>1, <1>4 DEF PlaceOf

(* A readable section makes a disk that goes by its own key.               *)
LEMMA DiskRead ==
  ASSUME NEW s \in Section, Readable(s)
  PROVE  /\ DiskOf(s) \in Disk /\ DiskOf(s) # NULL
         /\ Entry(s.name, DiskOf(s)) \in Entries
         /\ DiskOf(s).nickname = s.name /\ DiskOf(s).token # NULL /\ DiskOf(s).secret # NULL
  <1>1. s.name \in Name /\ s.type \in Type /\ s.username \in User
    BY DEF Section, Readable
  <1>2. ReadString(s.token) \in Token \cup {Empty} /\ ReadString(s.secret) = Empty
    BY DEF Section, ReadString
  <1>3. ReadString(s.token) # NULL /\ ReadString(s.secret) # NULL
    BY <1>2, DataAssumption
  <1>4. DiskOf(s) \in Disk
    BY <1>1, <1>2 DEF DiskOf, Disk
  <1>5. DiskOf(s) # NULL
    BY <1>4, DiskAssumption
  <1>6. Entry(s.name, DiskOf(s)) \in Entries
    BY <1>1, <1>4 DEF Entry, Entries
  <1> QED
    BY <1>3, <1>4, <1>5, <1>6 DEF DiskOf

(* An entry after a restart.                                               *)
Returned(e) ==
    Entry(e.key, [type |-> e.value.type, username |-> e.value.username, nickname |-> e.key,
                  token |-> ReadString(e.value.token), secret |-> ReadString(e.value.secret)])

(* What comes back of a list, entry by entry.                              *)
LEMMA ReadBackShape ==
  ASSUME NEW d
  PROVE  ReadBack(d) = [i \in DOMAIN d |-> Returned(d[i])]
  BY DEF ReadBack, Returned

(* The sections that are looked at, and what is kept of them.              *)
Named(f) == SubSeq(f, 1, IF Cap < Len(f) THEN Cap ELSE Len(f))
Kept(f) == Selected(Named(f), {i \in DOMAIN Named(f) : Readable(Named(f)[i])})

(* ndisks_load, with its two choices of sections named.                    *)
LEMMA LoadShape ==
  ASSUME NEW f \in Seq(Section)
  PROVE  LoadOf(f) = [i \in DOMAIN Kept(f) |-> Entry(Kept(f)[i].name, DiskOf(Kept(f)[i]))]
  BY DEF LoadOf, Named, Kept

(* The sections that are looked at are the first of the file.              *)
LEMMA NamedShape ==
  ASSUME NEW f \in Seq(Section)
  PROVE  /\ Named(f) \in Seq(Section) /\ Len(Named(f)) \in Nat /\ Len(Named(f)) <= Len(f)
         /\ Len(Named(f)) = IF Cap < Len(f) THEN Cap ELSE Len(f)
         /\ \A i \in 1 .. Len(Named(f)) : Named(f)[i] = f[i] /\ f[i] \in Section
  BY CapAssumption DEF Named

(* What a restart loads is a registry in which every disk goes by its key. *)
LEMMA LoadFacts ==
  ASSUME NEW f \in Seq(Section)
  PROVE  /\ LoadOf(f) \in Seq(Entries)
         /\ \A i \in 1 .. Len(LoadOf(f)) :
               /\ LoadOf(f)[i].value \in Disk /\ LoadOf(f)[i].value # NULL
               /\ LoadOf(f)[i].value.nickname = LoadOf(f)[i].key
               /\ LoadOf(f)[i].value.token # NULL /\ LoadOf(f)[i].value.secret # NULL
  <1> DEFINE s == Named(f)
             K == {i \in DOMAIN s : Readable(s[i])}
             kept == Kept(f)
             E(i) == Entry(kept[i].name, DiskOf(kept[i]))
  <1>1. s \in Seq(Section) /\ \A i \in 1 .. Len(s) : s[i] \in Section
    BY NamedShape
  <1>2. kept = Selected(s, K)
    BY DEF Kept
  <1>3. K \cap (1 .. Len(s)) \in SUBSET (1 .. Len(s)) /\ \A i \in K \cap (1 .. Len(s)) : Readable(s[i])
    OBVIOUS
  <1> HIDE DEF s, K, kept
  <1>4. /\ kept \in Seq(Section)
        /\ \A j \in 1 .. Len(kept) : \E i \in K \cap (1 .. Len(s)) : kept[j] = s[i]
    BY <1>1, <1>2, SelectedFrom
  <1>5. \A j \in 1 .. Len(kept) : kept[j] \in Section /\ Readable(kept[j])
    BY <1>1, <1>3, <1>4
  <1>6. LoadOf(f) = [i \in DOMAIN kept |-> E(i)]
    BY LoadShape DEF kept
  <1>7. DOMAIN kept = 1 .. Len(kept) /\ Len(kept) \in Nat
    BY <1>4
  <1>8. ASSUME NEW j \in 1 .. Len(kept)
        PROVE  /\ E(j) \in Entries /\ E(j).value \in Disk /\ E(j).value # NULL
               /\ E(j).value.nickname = E(j).key
               /\ E(j).value.token # NULL /\ E(j).value.secret # NULL
    <2>1. /\ DiskOf(kept[j]) \in Disk /\ DiskOf(kept[j]) # NULL
          /\ Entry(kept[j].name, DiskOf(kept[j])) \in Entries
          /\ DiskOf(kept[j]).nickname = kept[j].name
          /\ DiskOf(kept[j]).token # NULL /\ DiskOf(kept[j]).secret # NULL
      BY <1>5, DiskRead
    <2>2. E(j).value = DiskOf(kept[j]) /\ E(j).key = kept[j].name
      BY DEF Entry
    <2> HIDE DEF E
    <2>3. E(j) \in Entries
      BY <2>1 DEF E
    <2> QED
      BY <2>1, <2>2, <2>3
  <1> HIDE DEF E
  <1>9. LoadOf(f) \in Seq(Entries) /\ Len(LoadOf(f)) = Len(kept)
    BY <1>6, <1>7, <1>8
  <1>10. \A j \in 1 .. Len(kept) : LoadOf(f)[j] = E(j)
    BY <1>6, <1>7
  <1> QED
    BY <1>8, <1>9, <1>10

(* When a beginning of the file is readable, that is what is loaded, as    *)
(* far as the buffer reaches.                                              *)
LEMMA LoadPrefix ==
  ASSUME NEW f \in Seq(Section), NEW m \in 0 .. Len(f),
         \A i \in 1 .. Len(f) : Readable(f[i]) <=> i <= m
  PROVE  /\ LoadOf(f) \in Seq(Entries)
         /\ Len(LoadOf(f)) = IF Cap < m THEN Cap ELSE m
         /\ \A i \in 1 .. Len(LoadOf(f)) : LoadOf(f)[i] = Entry(f[i].name, DiskOf(f[i]))
  <1> DEFINE s == Named(f)
             K == {i \in DOMAIN s : Readable(s[i])}
             kept == Kept(f)
             q == IF Cap < m THEN Cap ELSE m
             E(i) == Entry(kept[i].name, DiskOf(kept[i]))
  <1>1. /\ s \in Seq(Section) /\ Len(s) \in Nat /\ Len(s) <= Len(f)
        /\ Len(s) = IF Cap < Len(f) THEN Cap ELSE Len(f)
        /\ \A i \in 1 .. Len(s) : s[i] = f[i]
    BY NamedShape
  <1>2. q \in 0 .. Len(s)
    BY <1>1, CapAssumption
  <1>3. \A i \in 1 .. Len(s) : i \in K <=> i <= q
    <2> SUFFICES ASSUME NEW i \in 1 .. Len(s) PROVE i \in K <=> i <= q
      OBVIOUS
    <2>1. i \in 1 .. Len(f) /\ s[i] = f[i] /\ i \in DOMAIN s
      BY <1>1
    <2>2. i \in K <=> i <= m
      BY <2>1
    <2>3. i <= m <=> i <= q
      BY <1>1, CapAssumption
    <2> QED
      BY <2>2, <2>3
  <1>4. kept = Selected(s, K)
    BY DEF Kept
  <1> HIDE DEF s, K, kept
  <1>5. kept = SubSeq(s, 1, q)
    <2> HIDE DEF q
    <2> QED
      BY <1>1, <1>2, <1>3, <1>4, SelectedPrefix
  <1>6. Len(kept) = q /\ DOMAIN kept = 1 .. q /\ \A i \in 1 .. q : kept[i] = s[i] /\ i \in 1 .. Len(s)
    <2> HIDE DEF q
    <2> QED
      BY <1>1, <1>2, <1>5
  <1>7. LoadOf(f) = [i \in 1 .. q |-> E(i)]
    BY <1>6, LoadShape DEF kept
  <1>8. LoadOf(f) \in Seq(Entries)
    BY LoadFacts
  <1> HIDE DEF E
  <1>9. Len(LoadOf(f)) = q /\ \A i \in 1 .. q : LoadOf(f)[i] = E(i)
    <2> HIDE DEF q
    <2> QED
      BY <1>2, <1>7, <1>8
  <1>10. \A i \in 1 .. q : E(i) = Entry(f[i].name, DiskOf(f[i]))
    BY <1>1, <1>6 DEF E
  <1> QED
    BY <1>8, <1>9, <1>10

(* What has been read back once stays as it is.                            *)
LEMMA ReadBackOfLoad ==
  ASSUME NEW f \in Seq(Section)
  PROVE  ReadBack(LoadOf(f)) = LoadOf(f)
  <1> DEFINE d == LoadOf(f)
  <1>1. /\ d \in Seq(Entries)
        /\ \A i \in 1 .. Len(d) :
               /\ d[i].value \in Disk /\ d[i].value.nickname = d[i].key
               /\ d[i].value.token # NULL /\ d[i].value.secret # NULL
    BY LoadFacts
  <1>2. ReadBack(d) = [i \in DOMAIN d |-> Returned(d[i])]
    BY ReadBackShape
  <1> HIDE DEF d
  <1>3. ASSUME NEW i \in 1 .. Len(d) PROVE Returned(d[i]) = d[i]
    <2>1. ReadString(d[i].value.token) = d[i].value.token /\ ReadString(d[i].value.secret) = d[i].value.secret
      BY <1>1 DEF ReadString
    <2>2. Returned(d[i]) = Entry(d[i].key, [type |-> d[i].value.type, username |-> d[i].value.username,
                                     nickname |-> d[i].value.nickname, token |-> d[i].value.token,
                                     secret |-> d[i].value.secret])
      BY <1>1, <2>1 DEF Returned
    <2>3. d[i] \in Entries /\ d[i].value \in Disk
      BY <1>1
    <2>4. d[i] = Entry(d[i].key, d[i].value)
      BY <2>3 DEF Entries, Entry
    <2>5. d[i].value = [type |-> d[i].value.type, username |-> d[i].value.username,
                                     nickname |-> d[i].value.nickname, token |-> d[i].value.token,
                                     secret |-> d[i].value.secret]
      BY <2>3 DEF Disk
    <2> QED
      BY <2>2, <2>4, <2>5
  <1>4. DOMAIN d = 1 .. Len(d) /\ d = [i \in 1 .. Len(d) |-> d[i]]
    BY <1>1
  <1>5. ReadBack(d) = d
    BY <1>2, <1>3, <1>4
  <1> QED
    BY <1>5 DEF d

-----------------------------------------------------------------------------
(* Two entries with the same section name are one, when no names clash.    *)
LEMMA NoClash ==
  ASSUME NEW d \in Seq(Entries), ~Clash(d), NEW i \in 1 .. Len(d), NEW j \in 1 .. Len(d),
         Fold[d[i].key] = Fold[d[j].key]
  PROVE  i = j
  BY DEF Clash

(* The fields of a section that is being written.                          *)
LEMMA WrittenFields ==
  ASSUME NEW e, NEW n
  PROVE  /\ Written(e, n).name = e.key
         /\ Written(e, n).type = IF n > 1 THEN e.value.type ELSE NULL
         /\ Written(e, n).username = IF n > 2 THEN e.value.username ELSE NULL
         /\ Written(e, n).token = IF n > 4 THEN e.value.token ELSE NULL
         /\ Written(e, n).secret = IF n > 5 THEN e.value.secret ELSE NULL
  BY DEF Written

(* Writing one field of one section leaves the others alone.               *)
LEMMA FieldWritten ==
  ASSUME NEW e \in Entries, e.value # NULL, NEW n \in 1 .. 5
  PROVE  /\ [Written(e, n) EXCEPT ![Fields[n]] = e.value[Fields[n]]] = Written(e, n + 1)
         /\ Written(e, n) \in Section /\ Written(e, n + 1) \in Section
         /\ n = 1 => /\ [EmptySection(e.key) EXCEPT ![Fields[n]] = e.value[Fields[n]]] = Written(e, n + 1)
                     /\ e.value[Fields[n]] # NULL
  <1>1. e.value \in Disk /\ e.key \in Name /\ e.value.type # NULL
    <2>1. e.value \in Disk /\ e.key \in Name
      BY DEF Entries
    <2>2. e.value.type \in Type
      BY <2>1 DEF Disk
    <2> QED
      BY <2>1, <2>2, DataAssumption
  <1>2. \A m \in 1 .. 6 : Written(e, m) \in Section
    BY <1>1 DEF Written, Section, Disk
  <1>3. n \in 1 .. 6 /\ n + 1 \in 1 .. 6
    OBVIOUS
  <1>4. [Written(e, n) EXCEPT ![Fields[n]] = e.value[Fields[n]]] = Written(e, n + 1)
    <2>1. CASE n = 1
      BY <2>1 DEF Written, Fields
    <2>2. CASE n = 2
      BY <2>2 DEF Written, Fields
    <2>3. CASE n = 3
      BY <2>3 DEF Written, Fields
    <2>4. CASE n = 4
      BY <2>4 DEF Written, Fields
    <2>5. CASE n = 5
      BY <2>5 DEF Written, Fields
    <2> QED
      BY <2>1, <2>2, <2>3, <2>4, <2>5
  <1>5. n = 1 => /\ [EmptySection(e.key) EXCEPT ![Fields[n]] = e.value[Fields[n]]] = Written(e, n + 1)
                 /\ e.value[Fields[n]] # NULL
    BY <1>1 DEF Written, Fields, EmptySection
  <1> QED
    BY <1>2, <1>3, <1>4, <1>5

(* One field further.                                                      *)
LEMMA SoFarStep ==
  ASSUME NEW f \in Seq(Section), NEW d \in Seq(Entries), ~Clash(d), NEW a \in 1 .. Len(d),
         NEW n \in 1 .. 5, d[a].value # NULL, SoFar(f, d, a, n)
  PROVE  LET g == WriteString(f, d[a].key, Fields[n], d[a].value[Fields[n]])
         IN  /\ g \in Seq(Section) /\ Len(g) = a
             /\ \A i \in 1 .. a : g[i] = Written(d[i], IF i < a THEN 6 ELSE n + 1)
  <1> DEFINE k == d[a].key
             v == d[a].value[Fields[n]]
             g == WriteString(f, k, Fields[n], v)
  <1>1. d[a] \in Entries /\ Len(f) \in Nat /\ Len(d) \in Nat /\ DOMAIN f = 1 .. Len(f)
    OBVIOUS
  <1>2. /\ [Written(d[a], n) EXCEPT ![Fields[n]] = v] = Written(d[a], n + 1)
        /\ Written(d[a], n) \in Section /\ Written(d[a], n + 1) \in Section
        /\ n = 1 => [EmptySection(k) EXCEPT ![Fields[n]] = v] = Written(d[a], n + 1) /\ v # NULL
    BY <1>1, FieldWritten
  <1>3. Len(f) = (IF n > 1 THEN a ELSE a - 1)
        /\ \A i \in 1 .. Len(f) : f[i] = Written(d[i], IF i < a THEN 6 ELSE n)
    BY DEF SoFar
  <1>4. \A i \in 1 .. Len(f) : f[i].name = d[i].key /\ i \in 1 .. Len(d)
    <2>1. \A i \in 1 .. Len(f) : i \in 1 .. Len(d)
      BY <1>1, <1>3
    <2> QED
      BY <1>3, <2>1, WrittenFields
  <1>5. \A i \in SectionsOf(f, k) : i = a /\ i \in 1 .. Len(f)
    <2> SUFFICES ASSUME NEW i \in SectionsOf(f, k) PROVE i = a /\ i \in 1 .. Len(f)
      OBVIOUS
    <2>1. i \in 1 .. Len(f) /\ Fold[f[i].name] = Fold[k]
      BY <1>1 DEF SectionsOf
    <2>2. i \in 1 .. Len(d) /\ Fold[d[i].key] = Fold[d[a].key]
      BY <1>4, <2>1
    <2> QED
      BY <2>1, <2>2, NoClash
  <1> HIDE DEF k, v
  <1>6. CASE n = 1
    <2>1. Len(f) = a - 1
      BY <1>3, <1>6
    <2>2. SectionsOf(f, k) = {}
      BY <1>5, <2>1
    <2>3. g = Append(f, Written(d[a], n + 1))
      BY <1>2, <1>6, <2>2 DEF WriteString
    <2>4. g \in Seq(Section) /\ Len(g) = a
      BY <1>1, <1>2, <2>1, <2>3
    <2>5. ASSUME NEW i \in 1 .. a PROVE g[i] = Written(d[i], IF i < a THEN 6 ELSE n + 1)
      <3>1. CASE i < a
        BY <1>3, <1>6, <2>1, <2>3, <3>1
      <3>2. CASE i = a
        BY <1>2, <2>1, <2>3, <3>2
      <3> QED
        BY <3>1, <3>2
    <2> QED
      BY <2>4, <2>5 DEF k, v
  <1>7. CASE n # 1
    <2>1. Len(f) = a
      BY <1>3, <1>7
    <2>2. a \in SectionsOf(f, k)
      BY <1>4, <2>1 DEF SectionsOf, k
    <2>3. SectionsOf(f, k) = {a}
      BY <1>5, <2>2
    <2>4. g = [f EXCEPT ![a][Fields[n]] = v]
      BY <2>3 DEF WriteString
    <2>5. f[a] = Written(d[a], n)
      BY <1>3, <2>1
    <2>6. g = [f EXCEPT ![a] = Written(d[a], n + 1)]
      BY <1>2, <2>4, <2>5
    <2>7. g \in Seq(Section) /\ Len(g) = a
      BY <1>1, <1>2, <2>1, <2>6
    <2>8. ASSUME NEW i \in 1 .. a PROVE g[i] = Written(d[i], IF i < a THEN 6 ELSE n + 1)
      <3>1. CASE i < a
        BY <1>3, <2>1, <2>6, <3>1
      <3>2. CASE i = a
        BY <1>2, <2>1, <2>6, <3>2
      <3> QED
        BY <3>1, <3>2
    <2> QED
      BY <2>7, <2>8 DEF k, v
  <1> QED
    BY <1>6, <1>7

(* A field is written, whatever the file holds.                            *)
LEMMA WriteStringType ==
  ASSUME NEW f \in Seq(Section), NEW e \in Entries, e.value # NULL, NEW n \in 1 .. 5
  PROVE  WriteString(f, e.key, Fields[n], e.value[Fields[n]]) \in Seq(Section)
  <1> DEFINE v == e.value[Fields[n]]
  <1>1. e.value \in Disk /\ e.key \in Name
    BY DEF Entries
  <1>2. ASSUME NEW s \in Section PROVE [s EXCEPT ![Fields[n]] = v] \in Section
    <2>1. CASE n = 1
      BY <1>1, <2>1 DEF Section, Disk, Fields
    <2>2. CASE n = 2
      BY <1>1, <2>2 DEF Section, Disk, Fields
    <2>3. CASE n = 3
      BY <1>1, <2>3 DEF Section, Disk, Fields
    <2>4. CASE n = 4
      BY <1>1, <2>4 DEF Section, Disk, Fields
    <2>5. CASE n = 5
      BY <1>1, <2>5 DEF Section, Disk, Fields
    <2> QED
      BY <2>1, <2>2, <2>3, <2>4, <2>5
  <1>3. EmptySection(e.key) \in Section
    BY <1>1 DEF EmptySection, Section
  <1>4. CASE SectionsOf(f, e.key) # {}
    <2> DEFINE i == CHOOSE j \in SectionsOf(f, e.key) : TRUE
    <2>1. i \in DOMAIN f
      BY <1>4 DEF SectionsOf
    <2>2. WriteString(f, e.key, Fields[n], v) = [f EXCEPT ![i][Fields[n]] = v]
      BY <1>4 DEF WriteString
    <2> HIDE DEF i, v
    <2>3. f[i] \in Section /\ i \in 1 .. Len(f)
      BY <2>1
    <2>4. [f[i] EXCEPT ![Fields[n]] = v] \in Section
      BY <1>2, <2>3
    <2>5. [f EXCEPT ![i][Fields[n]] = v] = [f EXCEPT ![i] = [f[i] EXCEPT ![Fields[n]] = v]]
      BY <2>1
    <2> QED
      BY <2>2, <2>3, <2>4, <2>5 DEF v
  <1>5. CASE SectionsOf(f, e.key) = {}
    <2>1. WriteString(f, e.key, Fields[n], v)
            = IF v = NULL THEN f ELSE Append(f, [EmptySection(e.key) EXCEPT ![Fields[n]] = v])
      BY <1>5 DEF WriteString
    <2> HIDE DEF v
    <2> QED
      BY <1>2, <1>3, <2>1 DEF v
  <1> QED
    BY <1>4, <1>5

(* What a restart makes of the file of a save that has come so far.        *)
LEMMA SoFarLoaded ==
  ASSUME NEW f \in Seq(Section), NEW d \in Seq(Entries), NEW a \in 1 .. Len(d),
         NEW n \in 1 .. 6, SoFar(f, d, a, n), \A i \in 1 .. Len(f) : d[i].value # NULL
  PROVE  /\ Len(LoadOf(f)) \in Nat
         /\ n = 6 => Len(LoadOf(f)) = IF Cap < a THEN Cap ELSE a
         /\ \A i \in 1 .. Len(LoadOf(f)) :
               /\ i <= a /\ d[i].value # NULL /\ LoadOf(f)[i].key = d[i].key
               /\ LoadOf(f)[i].value.type = d[i].value.type
               /\ LoadOf(f)[i].value.username = d[i].value.username
               /\ (i < a \/ n = 6) => LoadOf(f)[i] = Returned(d[i])
  <1> DEFINE m == IF n > 2 THEN a ELSE a - 1
             w(i) == IF i < a THEN 6 ELSE n
  <1>1. Len(f) \in Nat /\ m \in 0 .. Len(f) /\ Len(f) <= a /\ Len(d) \in Nat
    BY DEF SoFar
  <1>2. ASSUME NEW i \in 1 .. Len(f)
        PROVE  f[i] = Written(d[i], w(i)) /\ i \in 1 .. Len(d) /\ d[i].value \in Disk /\ w(i) \in 1 .. 6
    <2>1. i \in 1 .. Len(d) /\ w(i) \in 1 .. 6
      BY <1>1
    <2>2. d[i] \in Entries
      BY <2>1
    <2>3. d[i].value \in Disk
      BY <2>2 DEF Entries
    <2> QED
      BY <2>1, <2>3 DEF SoFar
  <1>3. ASSUME NEW i \in 1 .. Len(f) PROVE Readable(f[i]) <=> i <= m
    <2>1. d[i].value.type # NULL /\ d[i].value.username # NULL
      BY <1>2, DataAssumption DEF Disk
    <2>2. /\ f[i].type = IF w(i) > 1 THEN d[i].value.type ELSE NULL
          /\ f[i].username = IF w(i) > 2 THEN d[i].value.username ELSE NULL
      <3> HIDE DEF w
      <3> QED
        BY <1>2, WrittenFields
    <2>4. Readable(f[i]) <=> w(i) > 2
      BY <1>2, <2>1, <2>2 DEF Readable
    <2>3. w(i) > 2 <=> i <= m
      BY <1>1
    <2> QED
      BY <2>3, <2>4
  <1> HIDE DEF m
  <1>4. /\ LoadOf(f) \in Seq(Entries)
        /\ Len(LoadOf(f)) = IF Cap < m THEN Cap ELSE m
        /\ \A i \in 1 .. Len(LoadOf(f)) : LoadOf(f)[i] = Entry(f[i].name, DiskOf(f[i]))
    BY <1>1, <1>3, LoadPrefix
  <1>5. ASSUME NEW i \in 1 .. Len(LoadOf(f))
        PROVE  i \in 1 .. Len(f) /\ i <= m /\ i <= a /\ w(i) > 2
    <2>1. i <= m
      BY <1>1, <1>4, CapAssumption
    <2> QED
      BY <1>1, <2>1 DEF m
  <1>6. ASSUME NEW i \in 1 .. Len(LoadOf(f))
        PROVE  /\ LoadOf(f)[i].key = d[i].key
               /\ LoadOf(f)[i].value = DiskOf(Written(d[i], w(i)))
    <2>1. LoadOf(f)[i] = Entry(f[i].name, DiskOf(f[i])) /\ f[i] = Written(d[i], w(i))
      BY <1>2, <1>4, <1>5
    <2> QED
      BY <2>1 DEF Entry, Written
  <1>7. ASSUME NEW i \in 1 .. Len(LoadOf(f))
        PROVE  /\ LoadOf(f)[i].value.type = d[i].value.type
               /\ LoadOf(f)[i].value.username = d[i].value.username
    <2>1. w(i) > 2 /\ w(i) \in 1 .. 6
      BY <1>2, <1>5
    <2> HIDE DEF w
    <2>2. /\ DiskOf(Written(d[i], w(i))).type = Written(d[i], w(i)).type
          /\ DiskOf(Written(d[i], w(i))).username = Written(d[i], w(i)).username
      BY DEF DiskOf
    <2>3. /\ Written(d[i], w(i)).type = d[i].value.type
          /\ Written(d[i], w(i)).username = d[i].value.username
      BY <2>1, WrittenFields
    <2> QED
      BY <1>6, <2>2, <2>3
  <1>8. ASSUME NEW i \in 1 .. Len(LoadOf(f)), i < a \/ n = 6
        PROVE  LoadOf(f)[i] = Returned(d[i])
    <2>1. w(i) = 6 /\ d[i].value \in Disk
      BY <1>2, <1>5, <1>8
    <2> DEFINE v == d[i].value
               x == Written(d[i], 6)
    <2>2. /\ x.name = d[i].key /\ x.type = v.type /\ x.username = v.username
          /\ x.token = v.token /\ x.secret = v.secret
      BY WrittenFields
    <2> HIDE DEF x
    <2>3. DiskOf(x) = [type |-> v.type, username |-> v.username, nickname |-> d[i].key,
                       token |-> ReadString(v.token), secret |-> ReadString(v.secret)]
      BY <2>2 DEF DiskOf
    <2>4. Returned(d[i]) = Entry(d[i].key, DiskOf(x))
      BY <2>1, <2>3 DEF Returned
    <2>5. LoadOf(f)[i] \in Entries
      BY <1>4
    <2>6. LoadOf(f)[i] = Entry(LoadOf(f)[i].key, LoadOf(f)[i].value)
      BY <2>5 DEF Entries, Entry
    <2> QED
      BY <1>6, <2>1, <2>4, <2>6 DEF x
  <1>9. n = 6 => Len(LoadOf(f)) = IF Cap < a THEN Cap ELSE a
    BY <1>4 DEF m
  <1>10. \A i \in 1 .. Len(LoadOf(f)) : d[i].value # NULL
    BY <1>5
  <1>11. Len(LoadOf(f)) \in Nat
    BY <1>4
  <1> QED
    BY <1>5, <1>7, <1>6, <1>8, <1>9, <1>10, <1>11

(* A save that was written out in full is read back.                       *)
LEMMA Saved ==
  ASSUME NEW f \in Seq(Section), NEW d \in Seq(Entries), NEW a, a = Len(d), d # << >>,
         SoFar(f, d, a, 6), \A i \in 1 .. Len(d) : d[i].value # NULL, Len(d) <= Cap
  PROVE  LoadOf(f) = ReadBack(d)
  <1>1. a \in 1 .. Len(d) /\ Len(f) = a
    BY EmptySeq DEF SoFar
  <1>2. LoadOf(f) \in Seq(Entries)
    BY LoadFacts
  <1> DEFINE n == 6
  <1>3. n \in 1 .. 6 /\ n = 6 /\ SoFar(f, d, a, n) /\ \A i \in 1 .. Len(f) : d[i].value # NULL
    BY <1>1
  <1> HIDE DEF n
  <1>4. /\ n = 6 => Len(LoadOf(f)) = IF Cap < a THEN Cap ELSE a
        /\ \A i \in 1 .. Len(LoadOf(f)) : (i < a \/ n = 6) => LoadOf(f)[i] = Returned(d[i])
    BY <1>1, <1>3, SoFarLoaded
  <1>5. Len(LoadOf(f)) = Len(d)
    BY <1>1, <1>3, <1>4, CapAssumption
  <1>6. ReadBack(d) = [i \in 1 .. Len(d) |-> Returned(d[i])]
    BY ReadBackShape
  <1>7. LoadOf(f) = [i \in 1 .. Len(d) |-> LoadOf(f)[i]]
    BY <1>2, <1>5
  <1>8. \A i \in 1 .. Len(d) : LoadOf(f)[i] = Returned(d[i])
    BY <1>3, <1>4, <1>5
  <1> QED
    BY <1>6, <1>7, <1>8

-----------------------------------------------------------------------------
(* A registry that keeps its keys keeps the places of its keys.            *)
LEMMA PlaceStays ==
  ASSUME NEW d \in Seq(Entries), NEW e \in Seq(Entries), NEW k, Has(d, k),
         \A i \in 1 .. Len(d) : i \in 1 .. Len(e) /\ e[i].key = d[i].key
  PROVE  /\ Has(e, k) /\ PlaceOf(e, k) = PlaceOf(d, k)
         /\ PlaceOf(d, k) \in 1 .. Len(d) /\ d[PlaceOf(d, k)].key = k
  <1> DEFINE p == PlaceOf(d, k)
             q == PlaceOf(e, k)
  <1>1. p \in 1 .. Len(d) /\ d[p].key = k /\ \A j \in 1 .. Len(d) : d[j].key = k => p <= j
    BY Place
  <1> HIDE DEF p
  <1>2. p \in 1 .. Len(e) /\ e[p].key = k
    BY <1>1
  <1>3. Has(e, k)
    BY <1>2 DEF Has
  <1>4. q \in 1 .. Len(e) /\ e[q].key = k /\ \A j \in 1 .. Len(e) : e[j].key = k => q <= j
    BY <1>3, Place
  <1> HIDE DEF q
  <1>5. q <= p /\ q \in 1 .. Len(d)
    BY <1>1, <1>2, <1>4
  <1>6. p <= q
    BY <1>1, <1>4, <1>5
  <1>7. p = q
    BY <1>1, <1>4, <1>5, <1>6
  <1> QED
    BY <1>1, <1>3, <1>7 DEF p, q

(* Steps that leave the registry and the file alone.                       *)
LEMMA Resting ==
  ASSUME IInv, UNCHANGED <<disks, file, scripts, at, field, refused, mixed>>,
         pc = "idle", pc' = "idle", dialogs' \in Nat, calls' \in Seq(Calls),
         dialogs' + Len(calls') <= MaxLoops, Asked'
  PROVE  IInv'
  <1>1. at = 0 /\ field = 0 /\ NoLostValueAtRest
    BY DEF IInv, Whole
  <1>2. TypeOK'
    BY <1>1 DEF IInv, TypeOK
  <1>3. Sound'
    BY DEF IInv, Sound
  <1>4. Whole'
    BY <1>1 DEF Whole, NoLostValueAtRest
  <1>5. RestartKeepsDisks'
    BY DEF IInv, Filed, RestartKeepsDisks
  <1>6. Filed'
    BY <1>5 DEF Filed
  <1> QED
    BY <1>2, <1>3, <1>4, <1>6 DEF IInv

(* Steps that change the registry and begin to save it.                    *)
LEMMA Changed ==
  ASSUME IInv, UNCHANGED <<file, scripts, at, field, refused>>, pc = "idle", StartSave(disks'),
         disks' \in Seq(Entries), mixed' \in BOOLEAN, dialogs' \in Nat, calls' \in Seq(Calls),
         dialogs' + Len(calls') <= MaxLoops, Sound', Asked'
  PROVE  IInv'
  <1>1. at = 0 /\ field = 0
    BY DEF IInv, Whole
  <1>2. pc' \in {"idle", "delete"} /\ (pc' = "idle" <=> disks' = << >>)
    BY DEF StartSave
  <1>3. TypeOK'
    BY <1>1, <1>2 DEF IInv, TypeOK
  <1>4. Whole'
    <2>1. NoLostValueAtRest'
      BY <1>2 DEF NoLostValueAtRest
    <2> QED
      BY <1>1, <1>2, <2>1 DEF Whole
  <1>5. Filed'
    BY <1>2 DEF Filed, RestartKeepsDisks
  <1> QED
    BY <1>3, <1>4, <1>5 DEF IInv

(* No entry is taken out of the list, nor given another key.               *)
KeysStay == \A i \in 1 .. Len(disks) : i \in 1 .. Len(disks') /\ disks'[i].key = disks[i].key

(* What storing the disk d does to a registry.                             *)
Stored(d) ==
    /\ disks' \in Seq(Entries) /\ KeysStay
    /\ \A i \in 1 .. Len(disks) : disks'[i] = disks[i] \/ (Has(disks, d.nickname) /\ i = Len(disks))
    /\ \A i \in 1 .. Len(disks') :
          \/ i \in 1 .. Len(disks) /\ disks'[i] = disks[i]
          \/ disks'[i].value = NULL
          \/ /\ disks'[i].value = d
             /\ \E j \in 1 .. Len(disks') : disks'[j].key = d.nickname

(* An overwrite puts a value in the last entry (dictionary.c:16-37).       *)
LEMMA Overwriting ==
  ASSUME IInv, NEW d \in Disk, NEW v \in Disk \cup {NULL}, Has(disks, d.nickname), v = d \/ v = NULL,
         disks' = OverwriteLast(disks, v)
  PROVE  Stored(d)
  <1>1. disks \in Seq(Entries) /\ Len(disks) \in Nat /\ DOMAIN disks = 1 .. Len(disks)
    BY DEF IInv, TypeOK
  <1>2. PICK j \in 1 .. Len(disks) : disks[j].key = d.nickname
    BY <1>1 DEF Has
  <1>3. disks[Len(disks)] \in Entries /\ Len(disks) \in 1 .. Len(disks)
    BY <1>1, <1>2
  <1> DEFINE e == [disks[Len(disks)] EXCEPT !.value = v]
  <1>4. e \in Entries /\ e.value = v /\ e.key = disks[Len(disks)].key
    BY <1>3 DEF Entries
  <1>5. disks' = [disks EXCEPT ![Len(disks)] = e]
    BY <1>1, <1>3 DEF OverwriteLast
  <1> HIDE DEF e
  <1>6. disks' \in Seq(Entries) /\ Len(disks') = Len(disks)
    BY <1>1, <1>3, <1>4, <1>5
  <1>7. \A i \in 1 .. Len(disks) : disks'[i] = IF i = Len(disks) THEN e ELSE disks[i]
    BY <1>1, <1>5
  <1>8. \A i \in 1 .. Len(disks) : disks'[i].key = disks[i].key
    BY <1>4, <1>7
  <1>9. \E k \in 1 .. Len(disks') : disks'[k].key = d.nickname
    BY <1>2, <1>6, <1>8
  <1>10. \A i \in 1 .. Len(disks') : disks'[i] = disks[i] \/ disks'[i].value = v
    BY <1>4, <1>6, <1>7
  <1>11. \A i \in 1 .. Len(disks) : disks'[i] = disks[i] \/ (Has(disks, d.nickname) /\ i = Len(disks))
    BY <1>7
  <1>12. KeysStay
    BY <1>6, <1>8 DEF KeysStay
  <1> QED
    BY <1>6, <1>9, <1>10, <1>11, <1>12 DEF Stored

(* A disk with a new name becomes the last entry (dictionary.c:38-61).     *)
LEMMA Inserting ==
  ASSUME IInv, NEW d \in Disk, disks' = Append(disks, Entry(d.nickname, d))
  PROVE  Stored(d)
  <1>1. disks \in Seq(Entries) /\ Len(disks) \in Nat /\ d.nickname \in Name
    BY DEF IInv, TypeOK, Disk
  <1>2. Entry(d.nickname, d) \in Entries /\ Entry(d.nickname, d).value = d /\ Entry(d.nickname, d).key = d.nickname
    BY <1>1 DEF Entry, Entries
  <1>3. disks' \in Seq(Entries) /\ Len(disks') = Len(disks) + 1
    BY <1>1, <1>2
  <1>4. \A i \in 1 .. Len(disks) : disks'[i] = disks[i] /\ i \in 1 .. Len(disks')
    BY <1>1, <1>3
  <1>5. disks'[Len(disks) + 1] = Entry(d.nickname, d) /\ Len(disks) + 1 \in 1 .. Len(disks')
    BY <1>1, <1>3
  <1>6. \A i \in 1 .. Len(disks') : i \in 1 .. Len(disks) \/ i = Len(disks) + 1
    BY <1>1, <1>3
  <1>7. KeysStay
    BY <1>4 DEF KeysStay
  <1>8. \E j \in 1 .. Len(disks') : disks'[j].key = d.nickname
    BY <1>2, <1>5
  <1>9. \A i \in 1 .. Len(disks') :
          \/ i \in 1 .. Len(disks) /\ disks'[i] = disks[i]
          \/ disks'[i].value = d /\ \E j \in 1 .. Len(disks') : disks'[j].key = d.nickname
    BY <1>2, <1>4, <1>5, <1>6, <1>8
  <1> QED
    BY <1>3, <1>4, <1>7, <1>9 DEF Stored

(* The disks keep to Sound when a new one is stored.                       *)
LEMMA StoredSound ==
  ASSUME IInv, NEW d \in Disk, d.token = NULL, d.type \in scripts, Stored(d),
         scripts' = scripts, mixed' = mixed
  PROVE  Sound'
  <1>1. disks \in Seq(Entries) /\ DOMAIN disks = 1 .. Len(disks) /\ DOMAIN disks' = 1 .. Len(disks')
    BY DEF IInv, TypeOK, Stored
  <1>2. \A i \in 1 .. Len(disks) : disks[i].value # NULL =>
           /\ \E j \in 1 .. Len(disks) : disks[j].key = disks[i].value.nickname
           /\ disks[i].value.token = NULL => disks[i].value.type \in scripts
           /\ ~mixed /\ disks[i].value.token # NULL => disks[i].value.nickname = disks[i].key
    BY <1>1 DEF IInv, Sound, Has
  <1>3. ASSUME NEW i \in 1 .. Len(disks'), disks'[i].value # NULL
        PROVE  /\ \E j \in 1 .. Len(disks') : disks'[j].key = disks'[i].value.nickname
               /\ disks'[i].value.token = NULL => disks'[i].value.type \in scripts
               /\ ~mixed /\ disks'[i].value.token # NULL => disks'[i].value.nickname = disks'[i].key
    <2>1. CASE i \in 1 .. Len(disks) /\ disks'[i] = disks[i]
      <3>1. disks[i].value # NULL
        BY <1>3, <2>1
      <3>2. PICK j \in 1 .. Len(disks) : disks[j].key = disks[i].value.nickname
        BY <1>2, <2>1, <3>1
      <3>3. j \in 1 .. Len(disks') /\ disks'[j].key = disks'[i].value.nickname
        BY <2>1, <3>2 DEF Stored, KeysStay
      <3> QED
        BY <1>2, <2>1, <3>1, <3>3
    <2>2. CASE disks'[i].value = d /\ \E j \in 1 .. Len(disks') : disks'[j].key = d.nickname
      BY <2>2
    <2> QED
      BY <1>3, <2>1, <2>2 DEF Stored
  <1> QED
    BY <1>1, <1>3 DEF Sound, Has

(* A call that waits is marked when the overwrite hits its disk.           *)
LEMMA Marked ==
  ASSUME NEW cs \in Seq(Calls)
  PROVE  /\ Replaced(cs) \in Seq(Calls) /\ Len(Replaced(cs)) = Len(cs)
         /\ \A i \in 1 .. Len(cs) :
               Replaced(cs)[i] = IF cs[i].is = "auth" /\ cs[i].entry.key = Last(disks).key
                                 THEN [cs[i] EXCEPT !.replaced = TRUE] ELSE cs[i]
  <1> DEFINE R(i) == IF cs[i].is = "auth" /\ cs[i].entry.key = Last(disks).key
                     THEN [cs[i] EXCEPT !.replaced = TRUE] ELSE cs[i]
  <1>1. Replaced(cs) = [i \in 1 .. Len(cs) |-> R(i)] /\ Len(cs) \in Nat
    BY DEF Replaced
  <1>2. ASSUME NEW i \in 1 .. Len(cs) PROVE R(i) \in Calls
    <2>1. cs[i] \in Calls
      OBVIOUS
    <2>2. CASE cs[i].is = "auth"
      <3>1. cs[i] \in [is : {"auth"}, entry : [key : Name, value : Disk], name : Name, replaced : BOOLEAN]
        BY <2>1, <2>2 DEF Calls
      <3>2. [cs[i] EXCEPT !.replaced = TRUE]
              \in [is : {"auth"}, entry : [key : Name, value : Disk], name : Name, replaced : BOOLEAN]
        BY <3>1
      <3> QED
        BY <2>1, <3>2 DEF Calls
    <2> QED
      BY <2>1, <2>2
  <1> HIDE DEF R
  <1>3. Replaced(cs) \in Seq(Calls) /\ Len(Replaced(cs)) = Len(cs)
    BY <1>1, <1>2
  <1>4. \A i \in 1 .. Len(cs) : Replaced(cs)[i] = R(i)
    BY <1>1
  <1> QED
    BY <1>3, <1>4 DEF R

(* A call that was fine, and is marked if need be, is fine after a store.  *)
LEMMA FineStays ==
  ASSUME disks \in Seq(Entries), NEW d \in Disk, Stored(d),
         NEW c \in Calls, NEW s, NEW m, Fine(c, disks, s, m), NEW b \in Calls,
         b = c \/ (c.is = "auth" /\ b = [c EXCEPT !.replaced = TRUE]),
         b.is = "auth" /\ ~b.replaced /\ Has(disks, d.nickname) => b.entry.key # Last(disks).key
  PROVE  Fine(b, disks', s, m)
  <1>1. /\ b.is = c.is /\ (b.is = "confirm" => b.disk = c.disk)
        /\ b.is = "auth" => b.entry = c.entry /\ (~b.replaced => ~c.replaced)
    BY DEF Calls
  <1>2. CASE b.is = "auth"
    <2> DEFINE k == b.entry.key
               p == PlaceOf(disks, k)
    <2>1. Has(disks, k)
      BY <1>1, <1>2 DEF Fine
    <2>2. disks' \in Seq(Entries) /\ \A i \in 1 .. Len(disks) : i \in 1 .. Len(disks') /\ disks'[i].key = disks[i].key
      BY DEF Stored, KeysStay
    <2> HIDE DEF k
    <2>3. Has(disks', k) /\ PlaceOf(disks', k) = p /\ p \in 1 .. Len(disks) /\ disks[p].key = k
      BY <2>1, <2>2, PlaceStays
    <2> HIDE DEF p
    <2>4. ~b.replaced => disks'[p] = disks[p]
      <3> SUFFICES ASSUME ~b.replaced, disks'[p] # disks[p] PROVE FALSE
        OBVIOUS
      <3>1. Has(disks, d.nickname) /\ p = Len(disks)
        BY <2>3 DEF Stored
      <3>2. Last(disks) = disks[p]
        BY <3>1 DEF Last
      <3> QED
        BY <1>2, <2>3, <3>1, <3>2 DEF k
    <2>5. ~b.replaced => SameDisk(disks[p].value, b.entry.value)
      BY <1>1, <1>2 DEF Fine, p, k
    <2>6. ~m => b.entry.value.nickname = k
      BY <1>1, <1>2 DEF Fine, k
    <2>7. b.is # "confirm"
      BY <1>2
    <2> QED
      BY <2>3, <2>4, <2>5, <2>6, <2>7 DEF Fine, k
  <1>3. CASE b.is # "auth"
    BY <1>1, <1>3 DEF Fine
  <1> QED
    BY <1>2, <1>3

(* The dialog stores a disk, or loses its value.                           *)
LEMMA Storing ==
  ASSUME IInv, NEW d \in Disk, d.token = NULL, d.type \in scripts, pc = "idle",
         NEW cs \in Seq(Calls), \A i \in 1 .. Len(cs) : Fine(cs[i], disks, scripts, mixed),
         dialogs' \in Nat, dialogs' + Len(cs) <= MaxLoops, Store(d, cs)
  PROVE  IInv' /\ KeysStay /\ Stored(d)
  <1>1. disks \in Seq(Entries) /\ Len(disks) \in Nat /\ d.nickname \in Name /\ mixed \in BOOLEAN
    BY DEF IInv, TypeOK, Disk
  <1>2. Stored(d)
    <2>1. \/ disks' = SetElement(disks, d.nickname, d)
          \/ disks' = IF Has(disks, d.nickname) THEN OverwriteLast(disks, NULL) ELSE disks
      BY DEF Store
    <2>2. CASE Has(disks, d.nickname)
      <3>1. PICK v \in {d, NULL} : disks' = OverwriteLast(disks, v)
        BY <2>1, <2>2 DEF SetElement
      <3> QED
        BY <2>2, <3>1, Overwriting
    <2>3. CASE ~Has(disks, d.nickname) /\ disks' = disks
      BY <1>1, <2>3 DEF Stored, KeysStay
    <2>4. CASE ~Has(disks, d.nickname) /\ disks' = SetElement(disks, d.nickname, d)
      BY <2>4, Inserting DEF SetElement, Insert
    <2> QED
      BY <2>1, <2>2, <2>3, <2>4
  <1>3. /\ UNCHANGED <<file, scripts, at, field, refused, mixed>> /\ StartSave(disks')
        /\ calls' = IF Has(disks, d.nickname) THEN Replaced(cs) ELSE cs
    BY DEF Store
  <1>4. Sound'
    BY <1>2, <1>3, StoredSound
  <1>5. /\ calls' \in Seq(Calls) /\ Len(calls') = Len(cs)
        /\ \A i \in 1 .. Len(cs) :
              calls'[i] = IF /\ Has(disks, d.nickname)
                             /\ cs[i].is = "auth" /\ cs[i].entry.key = Last(disks).key
                          THEN [cs[i] EXCEPT !.replaced = TRUE] ELSE cs[i]
    BY <1>3, Marked
  <1>6. ASSUME NEW i \in 1 .. Len(calls') PROVE Fine(calls'[i], disks', scripts, mixed)
    <2>1. cs[i] \in Calls /\ calls'[i] \in Calls /\ Fine(cs[i], disks, scripts, mixed)
      BY <1>5
    <2>2. PICK c \in Calls, b \in Calls : c = cs[i] /\ b = calls'[i]
      BY <2>1
    <2>3. b = IF /\ Has(disks, d.nickname)
                 /\ c.is = "auth" /\ c.entry.key = Last(disks).key
              THEN [c EXCEPT !.replaced = TRUE] ELSE c
      BY <1>5, <2>2
    <2>4. b = c \/ (c.is = "auth" /\ b = [c EXCEPT !.replaced = TRUE])
      BY <2>3
    <2>5. b.is = "auth" /\ ~b.replaced /\ Has(disks, d.nickname) => b.entry.key # Last(disks).key
      <3>1. SUFFICES ASSUME Has(disks, d.nickname), c.is = "auth", c.entry.key = Last(disks).key
                     PROVE  b.replaced
        BY <2>3
      <3>2. b = [c EXCEPT !.replaced = TRUE]
        BY <2>3, <3>1
      <3> QED
        BY <3>1, <3>2 DEF Calls
    <2>6. Fine(b, disks', scripts, mixed)
      BY <1>1, <1>2, <2>1, <2>2, <2>4, <2>5, FineStays
    <2> QED
      BY <2>2, <2>6
  <1>7. Asked'
    BY <1>3, <1>6 DEF Asked
  <1>8. disks' \in Seq(Entries) /\ KeysStay
    BY <1>2 DEF Stored
  <1>9. IInv'
    BY <1>1, <1>3, <1>4, <1>5, <1>7, <1>8, Changed
  <1> QED
    BY <1>2, <1>8, <1>9

(* A token is put in one entry's disk.                                     *)
TokenPut(p, t) ==
    /\ p \in 1 .. Len(disks) /\ disks[p].value \in Disk
    /\ disks' \in Seq(Entries) /\ Len(disks') = Len(disks)
    /\ \A i \in 1 .. Len(disks) :
          disks'[i] = IF i = p THEN Entry(disks[p].key, [disks[p].value EXCEPT !.token = t]) ELSE disks[i]

(* wp_savt stores a token in one entry, found by its key (wrapper.c:27-56).*)
LEMMA TokenPlace ==
  ASSUME IInv, NEW t \in Token \cup {Empty}, NEW n, Has(disks, n), ValueOf(disks, n) # NULL,
         disks' = [disks EXCEPT ![PlaceOf(disks, n)].value.token = t]
  PROVE  TokenPut(PlaceOf(disks, n), t) /\ disks[PlaceOf(disks, n)].key = n
  <1>1. disks \in Seq(Entries) /\ DOMAIN disks = 1 .. Len(disks) /\ Len(disks) \in Nat
    BY DEF IInv, TypeOK
  <1>2. PICK p \in 1 .. Len(disks) : p = PlaceOf(disks, n) /\ disks[p].key = n
    BY <1>1, Place
  <1>3. disks[p] \in Entries /\ disks[p].value # NULL
    BY <1>1, <1>2 DEF ValueOf
  <1>4. disks[p].value \in Disk /\ disks[p].key \in Name
    BY <1>3 DEF Entries
  <1> DEFINE v == [disks[p].value EXCEPT !.token = t]
             e == [disks[p] EXCEPT !.value = v]
  <1>5. v \in Disk
    BY <1>4 DEF Disk
  <1>6. disks' = [disks EXCEPT ![p] = e]
    BY <1>2
  <1> HIDE DEF v
  <1>7. e \in Entries /\ e = Entry(disks[p].key, v)
    BY <1>3, <1>5 DEF Entries, Entry
  <1> HIDE DEF e
  <1>8. disks' \in Seq(Entries) /\ Len(disks') = Len(disks)
    BY <1>1, <1>2, <1>6, <1>7
  <1>9. \A i \in 1 .. Len(disks) : disks'[i] = IF i = p THEN e ELSE disks[i]
    BY <1>1, <1>6
  <1> QED
    BY <1>2, <1>4, <1>7, <1>8, <1>9 DEF TokenPut, v

(* A waiting call stays fine when a token is put somewhere.                *)
LEMMA FineWithToken ==
  ASSUME disks \in Seq(Entries), NEW p, NEW t \in Token \cup {Empty}, TokenPut(p, t),
         NEW c \in Calls, NEW s, NEW m, NEW l, m => l, Fine(c, disks, s, m)
  PROVE  Fine(c, disks', s, l)
  <1>1. CASE c.is = "auth"
    <2> DEFINE k == c.entry.key
               q == PlaceOf(disks, k)
    <2>1. Has(disks, k)
      BY <1>1 DEF Fine
    <2>2. disks' \in Seq(Entries) /\ \A i \in 1 .. Len(disks) : i \in 1 .. Len(disks') /\ disks'[i].key = disks[i].key
      BY DEF TokenPut, Entry
    <2> HIDE DEF k
    <2>3. Has(disks', k) /\ PlaceOf(disks', k) = q /\ q \in 1 .. Len(disks)
      BY <2>1, <2>2, PlaceStays
    <2> HIDE DEF q
    <2>4. ~c.replaced => SameDisk(disks[q].value, c.entry.value)
      BY <1>1 DEF Fine, q, k
    <2>5. SameDisk(disks[q].value, c.entry.value) => SameDisk(disks'[q].value, c.entry.value)
      <3>1. CASE q = p
        <4>1. disks'[q].value = [disks[q].value EXCEPT !.token = t] /\ disks[q].value \in Disk
          BY <2>3, <3>1 DEF TokenPut, Entry
        <4> QED
          BY <4>1 DEF SameDisk, Disk
      <3>2. CASE q # p
        BY <2>3, <3>2 DEF TokenPut
      <3> QED
        BY <3>1, <3>2
    <2>6. ~m => c.entry.value.nickname = k
      BY <1>1 DEF Fine, k
    <2>7. c.is # "confirm"
      BY <1>1
    <2> QED
      BY <2>3, <2>4, <2>5, <2>6, <2>7 DEF Fine, k
  <1>2. CASE c.is # "auth"
    BY <1>2 DEF Fine
  <1> QED
    BY <1>1, <1>2

(* The waiting script's call, and the calls below it.                      *)
LEMMA Waiting ==
  ASSUME IInv, NEW w, Innermost(w)
  PROVE  /\ Last(calls) \in Calls /\ Last(calls).is = w /\ Fine(Last(calls), disks, scripts, mixed)
         /\ Front(calls) \in Seq(Calls) /\ Len(Front(calls)) = Len(calls) - 1 /\ Len(calls) \in Nat
         /\ \A i \in 1 .. Len(Front(calls)) : Fine(Front(calls)[i], disks, scripts, mixed)
  <1>1. calls \in Seq(Calls) /\ calls # << >> /\ Last(calls).is = w
    BY DEF IInv, TypeOK, Innermost
  <1>2. /\ Last(calls) = calls[Len(calls)] /\ calls[Len(calls)] \in Calls /\ Len(calls) \in Nat \ {0}
        /\ Front(calls) \in Seq(Calls) /\ Len(Front(calls)) = Len(calls) - 1
        /\ \A i \in 1 .. Len(calls) - 1 : Front(calls)[i] = calls[i]
    BY <1>1, Popped
  <1>3. \A i \in 1 .. Len(calls) : Fine(calls[i], disks, scripts, mixed)
    BY DEF IInv, Asked
  <1>4. Fine(Last(calls), disks, scripts, mixed)
    BY <1>2, <1>3
  <1>5. ASSUME NEW i \in 1 .. Len(Front(calls)) PROVE Fine(Front(calls)[i], disks, scripts, mixed)
    <2>1. Front(calls)[i] = calls[i] /\ i \in 1 .. Len(calls)
      BY <1>2
    <2> QED
      BY <1>3, <2>1
  <1> QED
    BY <1>1, <1>2, <1>4, <1>5

(* When nothing has mixed the names up, the name leads to the entry that   *)
(* was listed, and to its disk.                                            *)
LEMMA TokenHome ==
  ASSUME IInv, NEW c \in Calls, c.is = "auth", Fine(c, disks, scripts, mixed), ~mixed,
         c.name = c.entry.value.nickname
  PROVE  /\ c.name = c.entry.key
         /\ ~c.replaced => SameDisk(disks[PlaceOf(disks, c.name)].value, c.entry.value)
  BY DEF Fine

(* wp_savt puts the token in its place and saves.                          *)
LEMMA Tokens ==
  ASSUME IInv, NEW t \in Token \cup {Empty}, SaveToken(t), disks' # disks
  PROVE  IInv' /\ KeysStay /\ TokenPut(PlaceOf(disks, Last(calls).name), t)
  <1>1. PICK c \in Calls : c = Last(calls) /\ c.is = "auth" /\ Fine(c, disks, scripts, mixed)
    BY Waiting DEF SaveToken
  <1>2. /\ Front(calls) \in Seq(Calls) /\ Len(Front(calls)) = Len(calls) - 1 /\ Len(calls) \in Nat
        /\ \A i \in 1 .. Len(Front(calls)) : Fine(Front(calls)[i], disks, scripts, mixed)
    BY Waiting DEF SaveToken
  <1>3. /\ pc = "idle" /\ calls' = Front(calls) /\ Has(disks, c.name) /\ ValueOf(disks, c.name) # NULL
        /\ disks' = [disks EXCEPT ![PlaceOf(disks, c.name)].value.token = t]
        /\ StartSave(disks')
        /\ mixed' = (mixed \/ c.name # c.entry.value.nickname \/ c.replaced)
        /\ UNCHANGED <<file, scripts, at, field, dialogs, refused>>
    BY <1>1 DEF SaveToken, Innermost
  <1>4. PICK p : p = PlaceOf(disks, c.name)
    OBVIOUS
  <1>5. TokenPut(p, t) /\ disks[p].key = c.name
    BY <1>3, <1>4, TokenPlace
  <1>6. /\ disks \in Seq(Entries) /\ DOMAIN disks = 1 .. Len(disks) /\ Len(disks) \in Nat
        /\ DOMAIN disks' = 1 .. Len(disks')
    BY <1>5 DEF IInv, TypeOK, TokenPut
  <1>7. /\ disks' \in Seq(Entries) /\ Len(disks') = Len(disks)
        /\ p \in 1 .. Len(disks) /\ disks[p].value \in Disk
        /\ disks'[p] = Entry(disks[p].key, [disks[p].value EXCEPT !.token = t])
        /\ \A i \in 1 .. Len(disks) : i # p => disks'[i] = disks[i]
    BY <1>5 DEF TokenPut
  <1>8. /\ disks'[p].key = disks[p].key /\ disks'[p].value.token = t /\ t # NULL
        /\ disks'[p].value.nickname = disks[p].value.nickname
    <2>1. t # NULL
      BY DataAssumption
    <2> QED
      BY <1>7, <2>1 DEF Entry, Disk
  <1>9. \A i \in 1 .. Len(disks) : disks'[i].key = disks[i].key
    BY <1>7, <1>8
  <1>10. disks[p].value # NULL /\ \A i \in 1 .. Len(disks) : disks[i].value # NULL =>
           /\ \E j \in 1 .. Len(disks) : disks[j].key = disks[i].value.nickname
           /\ disks[i].value.token = NULL => disks[i].value.type \in scripts
           /\ ~mixed /\ disks[i].value.token # NULL => disks[i].value.nickname = disks[i].key
    BY <1>3, <1>4, <1>6 DEF IInv, Sound, Has, ValueOf
  <1>11. ~mixed' => disks[p].value.nickname = disks[p].key
    <2> SUFFICES ASSUME ~mixed' PROVE disks[p].value.nickname = disks[p].key
      OBVIOUS
    <2>1. ~mixed /\ c.name = c.entry.value.nickname /\ ~c.replaced
      BY <1>3
    <2>2. SameDisk(disks[p].value, c.entry.value)
      BY <1>1, <1>4, <2>1, TokenHome
    <2>3. disks[p].value.nickname = c.entry.value.nickname
      BY <1>7, <2>2 DEF SameDisk, Disk
    <2> QED
      BY <1>5, <2>1, <2>3
  <1>12. ASSUME NEW i \in 1 .. Len(disks'), disks'[i].value # NULL
         PROVE  /\ \E j \in 1 .. Len(disks') : disks'[j].key = disks'[i].value.nickname
                /\ disks'[i].value.token = NULL => disks'[i].value.type \in scripts
                /\ ~mixed' /\ disks'[i].value.token # NULL => disks'[i].value.nickname = disks'[i].key
    <2>1. CASE i = p
      BY <1>7, <1>8, <1>9, <1>10, <1>11, <2>1
    <2>2. CASE i # p
      <3>1. disks'[i] = disks[i] /\ i \in 1 .. Len(disks) /\ (~mixed' => ~mixed)
        BY <1>3, <1>7, <2>2
      <3>2. PICK j \in 1 .. Len(disks) : disks[j].key = disks[i].value.nickname
        BY <1>10, <1>12, <3>1
      <3>3. j \in 1 .. Len(disks') /\ disks'[j].key = disks'[i].value.nickname
        BY <1>7, <1>9, <3>1, <3>2
      <3> QED
        BY <1>10, <1>12, <3>1, <3>3
    <2> QED
      BY <2>1, <2>2
  <1>13. Sound'
    <2>1. ASSUME NEW n, \E j \in 1 .. Len(disks') : disks'[j].key = n PROVE Has(disks', n)
      BY <1>6, <2>1 DEF Has
    <2>2. scripts' = scripts
      BY <1>3
    <2> QED
      BY <1>12, <2>1, <2>2 DEF Sound
  <1>14. ASSUME NEW i \in 1 .. Len(Front(calls)) PROVE Fine(Front(calls)[i], disks', scripts, mixed')
    <2>1. Front(calls)[i] \in Calls
      BY <1>2
    <2>2. mixed => mixed'
      BY <1>3, Zenon
    <2> QED
      BY <1>2, <1>5, <1>6, <2>1, <2>2, FineWithToken
  <1>15. Asked'
    BY <1>3, <1>14 DEF Asked
  <1>16. /\ dialogs' \in Nat /\ dialogs' + Len(calls') <= MaxLoops /\ calls' \in Seq(Calls)
         /\ mixed' \in BOOLEAN
    <2>1. dialogs \in Nat /\ dialogs + Len(calls) <= MaxLoops /\ MaxLoops \in Nat
      BY CapAssumption DEF IInv, TypeOK
    <2>2. mixed' \in BOOLEAN
      BY <1>3
    <2> QED
      BY <1>2, <1>3, <2>1, <2>2
  <1>17. IInv'
    BY <1>3, <1>7, <1>13, <1>15, <1>16, Changed
  <1>18. KeysStay
    BY <1>7, <1>9 DEF KeysStay
  <1> QED
    BY <1>1, <1>4, <1>5, <1>17, <1>18

(* A token that changes nothing, or for a name that is not found.          *)
LEMMA NoToken ==
  ASSUME IInv, NEW t \in Token \cup {Empty}, SaveToken(t), disks' = disks
  PROVE  IInv'
  <1>1. /\ pc = "idle" /\ calls' = Front(calls) /\ mixed' \in BOOLEAN /\ (mixed => mixed')
        /\ UNCHANGED <<file, scripts, at, field, dialogs, refused>>
        /\ pc' = pc \/ StartSave(disks')
    BY DEF SaveToken, Innermost
  <1>2. /\ Front(calls) \in Seq(Calls) /\ Len(Front(calls)) = Len(calls) - 1 /\ Len(calls) \in Nat
        /\ \A i \in 1 .. Len(Front(calls)) : Fine(Front(calls)[i], disks, scripts, mixed)
    BY Waiting DEF SaveToken
  <1>3. Sound'
    BY <1>1 DEF IInv, Sound
  <1>4. \A i \in 1 .. Len(Front(calls)) : Fine(Front(calls)[i], disks, scripts, mixed')
    BY <1>1, <1>2 DEF Fine
  <1>5. Asked'
    BY <1>1, <1>4 DEF Asked
  <1>6. /\ dialogs' \in Nat /\ dialogs' + Len(calls') <= MaxLoops /\ calls' \in Seq(Calls)
        /\ at = 0 /\ field = 0 /\ disks' \in Seq(Entries)
    <2>1. dialogs \in Nat /\ dialogs + Len(calls) <= MaxLoops /\ MaxLoops \in Nat /\ disks \in Seq(Entries)
      BY CapAssumption DEF IInv, TypeOK
    <2>2. at = 0 /\ field = 0
      BY <1>1 DEF IInv, Whole
    <2> QED
      BY <1>1, <1>2, <2>1, <2>2
  <1>7. CASE StartSave(disks')
    BY <1>1, <1>3, <1>5, <1>6, <1>7, Changed
  <1>8. CASE pc' = pc
    <2>1. TypeOK'
      BY <1>1, <1>6, <1>8 DEF IInv, TypeOK
    <2>2. Whole'
      BY <1>1, <1>6, <1>8 DEF IInv, Whole, NoLostValueAtRest
    <2>3. Filed'
      BY <1>1, <1>8 DEF IInv, Filed, RestartKeepsDisks
    <2> QED
      BY <1>3, <1>5, <2>1, <2>2, <2>3 DEF IInv
  <1> QED
    BY <1>1, <1>7, <1>8

-----------------------------------------------------------------------------
(* The old file goes, or stays because Windows refused.                    *)
LEMMA Deleting ==
  ASSUME IInv, DeleteOld
  PROVE  IInv'
  <1>1. disks \in Seq(Entries) /\ disks # << >> /\ pc = "delete" /\ MaxRefused \in Nat
    BY CapAssumption DEF IInv, TypeOK, Whole, DeleteOld
  <1>2. Len(disks) \in Nat \ {0}
    BY <1>1, EmptySeq
  <1>3. /\ disks' = disks /\ scripts' = scripts /\ dialogs' = dialogs /\ calls' = calls /\ mixed' = mixed
        /\ pc' = "save" /\ at' = 1 /\ field' = 1
        /\ \/ file' = << >> /\ refused' = 0
           \/ MaxRefused > 0 /\ file' = file /\ refused' = 1
    BY DEF DeleteOld
  <1>4. file' \in Seq(Section) /\ refused' \in 0 .. MaxRefused
    <2>1. file \in Seq(Section) /\ << >> \in Seq(Section)
      BY DEF IInv, TypeOK
    <2>2. file' \in Seq(Section)
      BY <1>3, <2>1
    <2> QED
      BY <1>1, <1>3, <2>2
  <1>5. TypeOK'
    BY <1>2, <1>3, <1>4 DEF IInv, TypeOK, Fields
  <1>6. Sound'
    BY <1>3 DEF IInv, Sound
  <1>7. Whole'
    BY <1>3 DEF Whole, NoLostValueAtRest
  <1>8. Asked'
    BY <1>3 DEF IInv, Asked
  <1>9. refused' = 0 => file' = << >>
    BY <1>3
  <1>10. refused' = 0 => SoFar(file', disks', at', field')
    BY <1>3, <1>9 DEF SoFar
  <1>11. Filed'
    BY <1>3, <1>10 DEF Filed, RestartKeepsDisks
  <1> QED
    BY <1>5, <1>6, <1>7, <1>8, <1>11 DEF IInv

(* One field of a save.                                                    *)
LEMMA Writing ==
  ASSUME IInv, WriteField
  PROVE  IInv'
  <1>1. /\ disks \in Seq(Entries) /\ file \in Seq(Section) /\ at \in 1 .. Len(disks) /\ field \in 1 .. 5
        /\ Len(disks) \in Nat /\ refused \in 0 .. MaxRefused /\ MaxRefused \in Nat
    BY CapAssumption DEF IInv, TypeOK, WriteField, Fields
  <1>2. pc = "save" /\ disks[at].value # NULL /\ disks[at] \in Entries
    BY <1>1 DEF WriteField
  <1>3. disks' = disks /\ scripts' = scripts /\ dialogs' = dialogs /\ calls' = calls /\ mixed' = mixed
    BY DEF WriteField
  <1> DEFINE g == WriteString(file, disks[at].key, Fields[field], disks[at].value[Fields[field]])
  <1>4. \/ file' = g /\ refused' = refused
        \/ refused < MaxRefused /\ file' = file /\ refused' = refused + 1
    BY DEF WriteField
  <1>5. g \in Seq(Section)
    BY <1>1, <1>2, WriteStringType
  <1>6. refused = 0 /\ ~Clash(disks) => Len(g) = at /\ \A i \in 1 .. at : g[i] = Written(disks[i], IF i < at THEN 6 ELSE field + 1)
    <2>1. SUFFICES ASSUME refused = 0, ~Clash(disks)
                   PROVE  Len(g) = at /\ \A i \in 1 .. at : g[i] = Written(disks[i], IF i < at THEN 6 ELSE field + 1)
      OBVIOUS
    <2>2. SoFar(file, disks, at, field)
      BY <1>2, <2>1 DEF IInv, Filed
    <2> QED
      BY <1>1, <1>2, <2>1, <2>2, SoFarStep
  <1> HIDE DEF g
  <1>7. file' \in Seq(Section) /\ refused' \in 0 .. MaxRefused /\ (refused' = 0 => refused = 0 /\ file' = g)
    BY <1>1, <1>4, <1>5
  <1>8. \/ field < 5 /\ field' = field + 1 /\ at' = at /\ pc' = "save"
        \/ field = 5 /\ at < Len(disks) /\ field' = 1 /\ at' = at + 1 /\ pc' = "save"
        \/ field = 5 /\ at = Len(disks) /\ field' = 0 /\ at' = 0 /\ pc' = "idle"
    BY <1>1, <1>2 DEF WriteField, Advance, Fields
  <1>9. TypeOK'
    BY <1>1, <1>3, <1>7, <1>8 DEF IInv, TypeOK, Fields
  <1>10. Sound'
    BY <1>3 DEF IInv, Sound
  <1>11. \A i \in 1 .. at : disks[i].value # NULL
    BY <1>1, <1>2 DEF IInv, Whole
  <1>12. Whole'
    <2>1. CASE pc' = "save"
      BY <1>1, <1>3, <1>8, <1>11, <2>1 DEF Whole, NoLostValueAtRest
    <2>2. CASE pc' = "idle"
      BY <1>1, <1>3, <1>8, <1>11, <2>2 DEF Whole, NoLostValueAtRest
    <2> QED
      BY <1>8, <2>1, <2>2
  <1>13. Asked'
    BY <1>3 DEF IInv, Asked
  <1>14. pc' = "save" /\ refused' = 0 /\ ~Clash(disks') => SoFar(file', disks', at', field')
    BY <1>1, <1>3, <1>6, <1>7, <1>8 DEF SoFar
  <1>15. RestartKeepsDisks'
    <2>1. SUFFICES ASSUME pc' = "idle", refused' = 0, ~Clash(disks), Len(disks) <= Cap, disks # << >>
                   PROVE  LoadOf(file') = ReadBack(disks)
      BY <1>3, <1>8 DEF RestartKeepsDisks
    <2>2. at = Len(disks) /\ field = 5
      BY <1>8, <2>1
    <2>3. SoFar(file', disks, at, 6)
      BY <1>1, <1>6, <1>7, <2>1, <2>2 DEF SoFar
    <2> QED
      BY <1>1, <1>7, <1>11, <2>1, <2>2, <2>3, Saved
  <1>16. Filed'
    BY <1>14, <1>15 DEF Filed
  <1> QED
    BY <1>9, <1>10, <1>12, <1>13, <1>16 DEF IInv

(* The process ends.                                                       *)
LEMMA Ending ==
  ASSUME IInv, Gone
  PROVE  IInv'
  <1>1. /\ disks' = << >> /\ pc' = "down" /\ at' = 0 /\ field' = 0 /\ dialogs' = 0 /\ calls' = << >>
        /\ scripts' = {} /\ file' = file /\ refused' = refused /\ mixed' = mixed
    BY DEF Gone
  <1>2. TypeOK'
    BY <1>1, CapAssumption DEF IInv, TypeOK, Fields
  <1>3. Sound' /\ Whole' /\ Asked' /\ Filed'
    BY <1>1 DEF Sound, Whole, NoLostValueAtRest, Asked, Filed, RestartKeepsDisks
  <1> QED
    BY <1>2, <1>3 DEF IInv

(* The process begins, and reads the file.                                 *)
LEMMA Beginning ==
  ASSUME IInv, Attach
  PROVE  IInv'
  <1>1. /\ pc = "down" /\ disks' = LoadOf(file) /\ pc' = "idle" /\ refused' = 0
        /\ scripts' \in SUBSET Type /\ mixed' = FALSE
        /\ file' = file /\ at' = at /\ field' = field /\ dialogs' = dialogs /\ calls' = calls
    BY DEF Attach
  <1>2. file \in Seq(Section) /\ at = 0 /\ field = 0 /\ MaxRefused \in Nat
    BY <1>1, CapAssumption DEF IInv, TypeOK, Whole
  <1>3. /\ LoadOf(file) \in Seq(Entries)
        /\ \A i \in 1 .. Len(LoadOf(file)) :
               /\ LoadOf(file)[i].value # NULL /\ LoadOf(file)[i].value.nickname = LoadOf(file)[i].key
               /\ LoadOf(file)[i].value.token # NULL
    BY <1>2, LoadFacts
  <1>4. TypeOK'
    <2>1. /\ calls' \in Seq(Calls) /\ dialogs' \in Nat /\ dialogs' + Len(calls') <= MaxLoops
          /\ file' \in Seq(Section)
      BY <1>1 DEF IInv, TypeOK
    <2>2. disks' \in Seq(Entries) /\ at' \in 0 .. Len(disks')
      BY <1>1, <1>2, <1>3
    <2>3. field' \in 0 .. Len(Fields) /\ refused' \in 0 .. MaxRefused
      BY <1>1, <1>2 DEF Fields
    <2> QED
      BY <1>1, <2>1, <2>2, <2>3 DEF TypeOK
  <1>5. \A i \in 1 .. Len(LoadOf(file)) : Has(LoadOf(file), LoadOf(file)[i].value.nickname)
    BY <1>3 DEF Has
  <1>6. Sound'
    BY <1>1, <1>3, <1>5 DEF Sound
  <1>7. Whole'
    BY <1>1, <1>2, <1>3 DEF Whole, NoLostValueAtRest
  <1>8. Asked'
    BY <1>1 DEF IInv, Whole, Asked
  <1>9. ReadBack(LoadOf(file)) = LoadOf(file)
    BY <1>2, ReadBackOfLoad
  <1>10. Filed'
    BY <1>1, <1>9 DEF Filed, RestartKeepsDisks
  <1> QED
    BY <1>4, <1>6, <1>7, <1>8, <1>10 DEF IInv

-----------------------------------------------------------------------------
(* The inductive invariant.                                                *)
THEOREM Invariant == Spec => []IInv
<1>1. ASSUME Init PROVE IInv
  <2>1. /\ disks = << >> /\ file = << >> /\ pc = "down" /\ at = 0 /\ field = 0 /\ scripts = {}
        /\ dialogs = 0 /\ calls = << >> /\ refused = 0 /\ mixed = FALSE /\ MaxRefused \in Nat /\ MaxLoops \in Nat
    BY <1>1, CapAssumption DEF Init
  <2>2. disks \in Seq(Entries) /\ file \in Seq(Section) /\ calls \in Seq(Calls) /\ Len(disks) = 0 /\ Len(calls) = 0
    BY <2>1
  <2>3. at \in 0 .. Len(disks) /\ field \in 0 .. Len(Fields) /\ refused \in 0 .. MaxRefused
        /\ dialogs \in Nat /\ dialogs + Len(calls) <= MaxLoops
    BY <2>1, <2>2 DEF Fields
  <2>4. TypeOK
    BY <2>1, <2>2, <2>3 DEF TypeOK
  <2> QED
    BY <2>1, <2>2, <2>4 DEF IInv, Sound, Whole, NoLostValueAtRest, Asked, Filed, RestartKeepsDisks
<1>2. ASSUME IInv, [Next]_vars PROVE IInv'
  <2>1. /\ disks \in Seq(Entries) /\ calls \in Seq(Calls) /\ Len(calls) \in Nat
        /\ dialogs \in Nat /\ dialogs + Len(calls) <= MaxLoops /\ MaxLoops \in Nat
    BY <1>2, CapAssumption DEF IInv, TypeOK
  <2>2. \A i \in 1 .. Len(calls) : Fine(calls[i], disks, scripts, mixed)
    BY <1>2 DEF IInv, Asked
  <2>3. CASE Attach
    BY <1>2, <2>3, Beginning
  <2>4. CASE Detach \/ Crash \/ WriteCrashes
    BY <1>2, <2>4, Ending DEF Detach, Crash, WriteCrashes
  <2>5. CASE DeleteOld
    BY <1>2, <2>5, Deleting
  <2>6. CASE WriteField
    BY <1>2, <2>6, Writing
  <2>7. CASE OpenDialog \/ CancelDialog
    <3>1. /\ UNCHANGED <<disks, file, scripts, at, field, refused, mixed, calls>> /\ pc = "idle" /\ pc' = "idle"
          /\ \/ dialogs' = dialogs + 1 /\ dialogs + Len(calls) < MaxLoops
             \/ dialogs > 0 /\ dialogs' = dialogs - 1
      BY <2>7 DEF OpenDialog, CancelDialog, Room
    <3>2. dialogs' \in Nat /\ dialogs' + Len(calls') <= MaxLoops
      BY <2>1, <3>1
    <3>3. Asked'
      BY <1>2, <3>1 DEF IInv, Asked
    <3> QED
      BY <1>2, <2>1, <3>1, <3>2, <3>3, Resting
  <2>8. CASE ConfirmYes
    <3>1. /\ pc = "idle" /\ Last(calls) \in Calls /\ Last(calls).is = "confirm"
          /\ Fine(Last(calls), disks, scripts, mixed)
          /\ Front(calls) \in Seq(Calls) /\ Len(Front(calls)) = Len(calls) - 1
          /\ \A i \in 1 .. Len(Front(calls)) : Fine(Front(calls)[i], disks, scripts, mixed)
      BY <1>2, <2>8, Waiting DEF ConfirmYes, Innermost
    <3>2. PICK d \in Disk : d = Last(calls).disk
      BY <3>1 DEF Calls
    <3>3. d.token = NULL /\ d.type \in scripts
      BY <3>1, <3>2 DEF Fine
    <3>4. PICK cs \in Seq(Calls) : cs = Front(calls)
      BY <3>1
    <3>5. /\ Store(d, cs) /\ dialogs' \in Nat /\ dialogs' + Len(cs) <= MaxLoops
          /\ \A i \in 1 .. Len(cs) : Fine(cs[i], disks, scripts, mixed)
      BY <2>1, <2>8, <3>1, <3>2, <3>4 DEF ConfirmYes
    <3> QED
      BY <1>2, <3>1, <3>3, <3>5, Storing
  <2>9. CASE ConfirmNo \/ AuthFails
    <3>1. PICK w : Innermost(w)
      BY <2>9 DEF ConfirmNo, AuthFails
    <3>2. /\ UNCHANGED <<disks, file, scripts, at, field, refused, mixed>> /\ pc = "idle" /\ pc' = "idle"
          /\ calls' = Front(calls) /\ dialogs' \in {dialogs, dialogs + 1}
      BY <2>9 DEF ConfirmNo, AuthFails, Innermost
    <3>3. /\ calls' \in Seq(Calls) /\ Len(calls') = Len(calls) - 1
          /\ \A i \in 1 .. Len(calls') : Fine(calls'[i], disks, scripts, mixed)
      BY <1>2, <3>1, <3>2, Waiting
    <3>4. Asked' /\ dialogs' \in Nat /\ dialogs' + Len(calls') <= MaxLoops
      BY <2>1, <3>2, <3>3 DEF Asked
    <3> QED
      BY <1>2, <3>2, <3>3, <3>4, Resting
  <2>10. ASSUME NEW t \in Type, NEW u \in User, NEW n \in Name \cup {Empty}, PressOk(t, u, n)
         PROVE  IInv'
    <3> DEFINE d == NewDisk(t, u, n)
    <3>1. d \in Disk /\ d.token = NULL /\ d.type = t
      <4>1. DefaultName[t, u] \in Name
        BY DefaultAssumption, Zenon
      <4> QED
        BY <4>1 DEF NewDisk, Disk
    <3>2. /\ pc = "idle" /\ t \in scripts /\ dialogs > 0 /\ dialogs' = dialogs - 1
          /\ IF Has(disks, d.nickname)
             THEN /\ calls' = Append(calls, Asking(d))
                  /\ UNCHANGED <<disks, file, scripts, pc, at, field, refused, mixed>>
             ELSE Store(d, calls)
      BY <2>10 DEF PressOk
    <3>3. dialogs' \in Nat /\ dialogs' + Len(calls) + 1 <= MaxLoops
      BY <2>1, <3>2
    <3> HIDE DEF d
    <3>4. CASE Has(disks, d.nickname)
      <4>1. calls' = Append(calls, Asking(d)) /\ UNCHANGED <<disks, file, scripts, pc, at, field, refused, mixed>>
        BY <3>2, <3>4
      <4>2. Asking(d) \in Calls /\ Fine(Asking(d), disks, scripts, mixed)
        BY <3>1, <3>2 DEF Asking, Calls, Fine
      <4>3. /\ calls' \in Seq(Calls) /\ Len(calls') = Len(calls) + 1
            /\ \A i \in 1 .. Len(calls') : calls'[i] = Asking(d) \/ (i \in 1 .. Len(calls) /\ calls'[i] = calls[i])
        BY <2>1, <4>1, <4>2
      <4>4. Asked'
        BY <2>2, <4>1, <4>2, <4>3 DEF Asked
      <4> QED
        BY <1>2, <2>1, <3>2, <3>3, <4>1, <4>3, <4>4, Resting
    <3>5. CASE ~Has(disks, d.nickname)
      <4>1. PICK cs \in Seq(Calls) : cs = calls
        BY <2>1
      <4>2. /\ Store(d, cs) /\ dialogs' + Len(cs) <= MaxLoops
            /\ \A i \in 1 .. Len(cs) : Fine(cs[i], disks, scripts, mixed)
        BY <2>1, <2>2, <3>2, <3>3, <3>5, <4>1
      <4> QED
        BY <1>2, <3>1, <3>2, <3>3, <4>2, Storing
    <3> QED
      BY <3>4, <3>5
  <2>11. ASSUME NEW k \in Name, ListDisk(k) PROVE IInv'
    <3> DEFINE v == ValueOf(disks, k)
               c == Authorizing(Entry(k, v))
    <3>1. /\ pc = "idle" /\ pc' = "idle" /\ Has(disks, k) /\ v # NULL /\ v.token = Empty
          /\ dialogs + Len(calls) < MaxLoops /\ calls' = Append(calls, c)
          /\ UNCHANGED <<disks, file, scripts, at, field, dialogs, refused, mixed>>
      BY <2>11 DEF ListDisk, Opens, NeedsToken, Room
    <3>2. PICK p \in 1 .. Len(disks) : p = PlaceOf(disks, k) /\ disks[p].key = k
      BY <2>1, <3>1, Place
    <3>3. disks[p] \in Entries /\ disks[p].value = v
      BY <2>1, <3>2 DEF ValueOf
    <3>4. v \in Disk /\ Empty # NULL
      BY <3>1, <3>3, DataAssumption DEF Entries
    <3> HIDE DEF v
    <3>5. ~mixed => v.nickname = k
      BY <1>2, <3>1, <3>2, <3>3, <3>4 DEF IInv, Sound
    <3>6. v.nickname \in Name /\ Converted[v.nickname] \in Name
      <4>1. v.nickname \in Name
        BY <3>4 DEF Disk
      <4> QED
        BY <4>1, ConversionAssumption
    <3>7. c \in Calls
      BY <3>4, <3>6 DEF Calls, Authorizing, Entry
    <3>8. SameDisk(v, v)
      BY <3>4 DEF SameDisk, Disk
    <3>9. Fine(c, disks, scripts, mixed)
      BY <3>1, <3>2, <3>3, <3>5, <3>8 DEF Fine, Authorizing, Entry
    <3> HIDE DEF c
    <3>10. /\ calls' \in Seq(Calls) /\ Len(calls') = Len(calls) + 1
           /\ \A i \in 1 .. Len(calls') : calls'[i] = c \/ (i \in 1 .. Len(calls) /\ calls'[i] = calls[i])
      BY <2>1, <3>1, <3>7
    <3>11. Asked'
      BY <2>2, <3>1, <3>9, <3>10 DEF Asked
    <3>12. dialogs' \in Nat /\ dialogs' + Len(calls') <= MaxLoops
      BY <2>1, <3>1, <3>10
    <3> QED
      BY <1>2, <3>1, <3>10, <3>11, <3>12, Resting
  <2>12. CASE Unwind
    <3>1. PICK i \in Auths : calls' = SubSeq(calls, 1, i - 1) /\ dialogs' = dialogs + (Len(calls) - i)
      BY <2>12 DEF Unwind
    <3>4. i \in 1 .. Len(calls)
      BY <2>1, <3>1 DEF Auths
    <3>2. /\ pc = "idle" /\ pc' = "idle"
          /\ UNCHANGED <<disks, file, scripts, at, field, refused, mixed>>
      BY <2>12 DEF Unwind
    <3>3. /\ calls' \in Seq(Calls) /\ Len(calls') = i - 1
          /\ \A j \in 1 .. Len(calls') : calls'[j] = calls[j] /\ j \in 1 .. Len(calls)
      BY <2>1, <3>1, <3>4
    <3>5. Asked'
      BY <2>2, <3>2, <3>3 DEF Asked
    <3>6. dialogs' \in Nat /\ dialogs' + Len(calls') <= MaxLoops
      BY <2>1, <3>1, <3>3, <3>4
    <3> QED
      BY <1>2, <3>2, <3>3, <3>5, <3>6, Resting
  <2>13. ASSUME NEW t \in Token \cup {Empty}, SaveToken(t) PROVE IInv'
    BY <1>2, <2>13, Tokens, NoToken
  <2>14. CASE UNCHANGED vars
    <3>1. UNCHANGED <<disks, file, scripts, pc, at, field, dialogs, calls, refused, mixed>>
      BY <2>14 DEF vars
    <3> QED
      BY <1>2, <3>1 DEF IInv, TypeOK, Sound, Whole, NoLostValueAtRest, Asked, Filed, RestartKeepsDisks
  <2> QED
    BY <1>2, <2>3, <2>4, <2>5, <2>6, <2>7, <2>8, <2>9, <2>10, <2>11, <2>12, <2>13, <2>14 DEF Next, Saving
<1> QED
  BY <1>1, <1>2, PTL DEF Spec

(* The question's answer stores the disk it was asked about (ui.c:55-70).  *)
LEMMA ConfirmStores ==
  ASSUME IInv, ConfirmYes
  PROVE  \E d \in Disk : IInv' /\ KeysStay /\ Stored(d)
<1>1. /\ pc = "idle" /\ Last(calls) \in Calls /\ Last(calls).is = "confirm"
      /\ Fine(Last(calls), disks, scripts, mixed)
      /\ Front(calls) \in Seq(Calls) /\ Len(Front(calls)) = Len(calls) - 1 /\ Len(calls) \in Nat
      /\ \A i \in 1 .. Len(Front(calls)) : Fine(Front(calls)[i], disks, scripts, mixed)
  BY Waiting DEF ConfirmYes, Innermost
<1>2. PICK d \in Disk : d = Last(calls).disk
  BY <1>1 DEF Calls
<1>3. d.token = NULL /\ d.type \in scripts
  BY <1>1, <1>2 DEF Fine
<1>4. PICK cs \in Seq(Calls) : cs = Front(calls)
  BY <1>1
<1>5. dialogs \in Nat /\ dialogs + Len(calls) <= MaxLoops /\ MaxLoops \in Nat
  BY CapAssumption DEF IInv, TypeOK
<1>6. /\ Store(d, cs) /\ dialogs' \in Nat /\ dialogs' + Len(cs) <= MaxLoops
      /\ \A i \in 1 .. Len(cs) : Fine(cs[i], disks, scripts, mixed)
  BY <1>1, <1>2, <1>4, <1>5 DEF ConfirmYes
<1>7. IInv' /\ KeysStay /\ Stored(d)
  BY <1>1, <1>3, <1>6, Storing
<1> QED
  BY <1>7

(* The OK button stores a disk with a new name, or leaves the disks alone. *)
LEMMA OkStores ==
  ASSUME IInv, NEW t \in Type, NEW u \in User, NEW n \in Name \cup {Empty}, PressOk(t, u, n)
  PROVE  /\ KeysStay
         /\ \A i \in 1 .. Len(disks) : disks'[i] = disks[i]
<1> DEFINE d == NewDisk(t, u, n)
<1>1. DefaultName[t, u] \in Name
  BY DefaultAssumption, Zenon
<1>2. d \in Disk /\ d.token = NULL /\ d.type = t
  BY <1>1 DEF NewDisk, Disk
<1>3. /\ pc = "idle" /\ t \in scripts /\ dialogs > 0 /\ dialogs' = dialogs - 1
      /\ IF Has(disks, d.nickname) THEN disks' = disks ELSE Store(d, calls)
  BY DEF PressOk
<1>4. /\ dialogs \in Nat /\ dialogs + Len(calls) <= MaxLoops /\ MaxLoops \in Nat
      /\ calls \in Seq(Calls) /\ disks \in Seq(Entries)
      /\ \A i \in 1 .. Len(calls) : Fine(calls[i], disks, scripts, mixed)
  BY CapAssumption DEF IInv, TypeOK, Asked
<1> HIDE DEF d
<1>5. CASE disks' = disks
  BY <1>4, <1>5 DEF KeysStay
<1>6. CASE ~Has(disks, d.nickname) /\ Store(d, calls)
  <2>1. PICK cs \in Seq(Calls) : cs = calls
    BY <1>4
  <2>2. /\ Store(d, cs) /\ dialogs' \in Nat /\ dialogs' + Len(cs) <= MaxLoops
        /\ \A i \in 1 .. Len(cs) : Fine(cs[i], disks, scripts, mixed)
    BY <1>3, <1>4, <1>6, <2>1
  <2>3. KeysStay /\ Stored(d)
    BY <1>2, <1>3, <2>2, Storing
  <2> QED
    BY <1>6, <2>3 DEF Stored
<1> QED
  BY <1>3, <1>5, <1>6

(* An entry stays in its place, under its key, from when the library is    *)
(* attached to when the process ends (disk.c:12-75, ui.c:65-70,            *)
(* wrapper.c:38-44): what a root listing may rely on.                      *)
THEOREM EntriesStay == Spec => [][pc # "down" /\ pc' # "down" => KeysStay]_vars
<1>1. ASSUME IInv, Next, pc # "down", pc' # "down" PROVE KeysStay
  <2>1. disks \in Seq(Entries)
    BY <1>1 DEF IInv, TypeOK
  <2>2. CASE disks' = disks
    BY <2>1, <2>2 DEF KeysStay
  <2>3. CASE ConfirmYes
    BY <1>1, <2>3, ConfirmStores
  <2>4. ASSUME NEW t \in Type, NEW u \in User, NEW n \in Name \cup {Empty}, PressOk(t, u, n)
        PROVE  KeysStay
    BY <1>1, <2>4, OkStores
  <2>5. ASSUME NEW t \in Token \cup {Empty}, SaveToken(t), disks' # disks PROVE KeysStay
    BY <1>1, <2>5, Tokens
  <2> QED
    BY <1>1, <2>2, <2>3, <2>4, <2>5
       DEF Next, Saving, Attach, Detach, Crash, Gone, DeleteOld, WriteField, WriteCrashes,
           OpenDialog, CancelDialog, ConfirmNo, ListDisk, AuthFails, Unwind
<1> QED
  BY <1>1, Invariant, PTL DEF Spec

-----------------------------------------------------------------------------
(* Every variable keeps to its type (disk.h:20-26, disk.c:7-75).           *)
THEOREM RegistryTypes == Spec => []TypeOK
<1>1. IInv => TypeOK
  BY DEF IInv
<1> QED
  BY <1>1, Invariant, PTL

(* A set that failed half way never comes back to the user (ui.c:65-66,    *)
(* dictionary.c:31-34): no entry is without its disk while the plugin is   *)
(* at rest.                                                                *)
THEOREM RegistryIsWholeAtRest == Spec => []NoLostValueAtRest
<1>1. IInv => NoLostValueAtRest
  BY DEF IInv, Whole
<1> QED
  BY <1>1, Invariant, PTL

(* A key leads to a disk while the plugin is at rest.                      *)
LEMMA KeysLead ==
  ASSUME IInv, pc = "idle", NEW n, Has(disks, n)
  PROVE  Leads(n)
<1>1. disks \in Seq(Entries)
  BY DEF IInv, TypeOK
<1>2. PICK p \in 1 .. Len(disks) : p = PlaceOf(disks, n)
  BY <1>1, Place
<1>3. ValueOf(disks, n) = disks[p].value /\ disks[p].value # NULL
  BY <1>1, <1>2 DEF ValueOf, IInv, Whole, NoLostValueAtRest
<1>4. disks[p].value.token = NULL => disks[p].value.type \in scripts
  BY <1>2, <1>3 DEF IInv, Sound
<1> QED
  BY <1>3, <1>4 DEF Leads, Opens

(* Every nickname the root directory shows leads to a disk, and opens it   *)
(* unless that disk came from the file and its script is not loaded        *)
(* (ndpluginw.c:211, disk.c:89-99), whatever has been overwritten.         *)
THEOREM ListedDisksOpen == Spec => []ListedNamesResolve
<1>1. ASSUME IInv PROVE ListedNamesResolve
  <2> SUFFICES ASSUME pc = "idle", NEW i \in DOMAIN disks PROVE Leads(disks[i].value.nickname)
    BY DEF ListedNamesResolve
  <2>1. disks \in Seq(Entries) /\ DOMAIN disks = 1 .. Len(disks) /\ i \in 1 .. Len(disks)
    BY <1>1 DEF IInv, TypeOK
  <2>2. \A j \in 1 .. Len(disks) : disks[j].value # NULL
    BY <1>1, <2>1 DEF IInv, Whole, NoLostValueAtRest
  <2>3. PICK n : n = disks[i].value.nickname
    OBVIOUS
  <2>4. Has(disks, n)
    BY <1>1, <2>1, <2>2, <2>3 DEF IInv, Sound
  <2> QED
    BY <1>1, <2>3, <2>4, KeysLead
<1> QED
  BY <1>1, Invariant, PTL

(* What a restart reads back is what was saved (disk.c:12-75).             *)
THEOREM SavedDisksComeBack == Spec => []RestartKeepsDisks
<1>1. IInv => RestartKeepsDisks
  BY DEF IInv, Filed
<1> QED
  BY <1>1, Invariant, PTL

(* An interrupted save leaves a beginning of the registry (disk.c:12-32).  *)
THEOREM TornSaveIsAPrefix == Spec => []TornSave
<1>1. ASSUME IInv PROVE TornSave
  <2> SUFFICES ASSUME pc = "save", refused = 0, ~Clash(disks), NEW i \in DOMAIN LoadOf(file)
               PROVE  /\ i <= at /\ LoadOf(file)[i].key = disks[i].key
                      /\ disks[i].value # NULL
                      /\ LoadOf(file)[i].value.type = disks[i].value.type
                      /\ LoadOf(file)[i].value.username = disks[i].value.username
                      /\ i < at => LoadOf(file)[i] = ReadBack(SubSeq(disks, 1, i))[i]
    BY DEF TornSave
  <2>1. /\ disks \in Seq(Entries) /\ file \in Seq(Section) /\ at \in 1 .. Len(disks) /\ field \in 1 .. 6
        /\ Len(disks) \in Nat
    BY <1>1 DEF IInv, TypeOK, Fields
  <2>2. SoFar(file, disks, at, field)
    BY <1>1 DEF IInv, Filed
  <2>3. \A j \in 1 .. Len(file) : disks[j].value # NULL
    BY <1>1, <2>1, <2>2 DEF IInv, Whole, SoFar
  <2>4. LoadOf(file) \in Seq(Entries)
    BY <2>1, LoadFacts
  <2>5. i \in 1 .. Len(LoadOf(file))
    BY <2>4
  <2>6. /\ i <= at /\ LoadOf(file)[i].key = disks[i].key /\ disks[i].value # NULL
        /\ LoadOf(file)[i].value.type = disks[i].value.type
        /\ LoadOf(file)[i].value.username = disks[i].value.username
        /\ i < at => LoadOf(file)[i] = Returned(disks[i])
    BY <2>1, <2>2, <2>3, <2>5, SoFarLoaded
  <2>7. SubSeq(disks, 1, i)[i] = disks[i] /\ DOMAIN SubSeq(disks, 1, i) = 1 .. i /\ i \in 1 .. i
    BY <2>1, <2>4, <2>5, <2>6
  <2>8. ReadBack(SubSeq(disks, 1, i))[i] = Returned(SubSeq(disks, 1, i)[i])
    BY <2>7, ReadBackShape
  <2> QED
    BY <2>6, <2>7, <2>8
<1> QED
  BY <1>1, Invariant, PTL

(* A token goes to the entry that was listed, found again by a nickname,   *)
(* and to the disk that was listed, unless that entry was overwritten      *)
(* while the window was open, or the conversions change the name, or       *)
(* either has happened before (wrapper.c:33-44, skydrive.lua:24).          *)
THEOREM TokenKeepsToItsDisk == Spec => TokenGoesToListedDisk
<1>1. ASSUME IInv, [Next]_vars, Innermost("auth"), disks' # disks, pc' # "down",
             ~mixed, Last(calls).name = Last(calls).entry.value.nickname,
             NEW i \in DOMAIN disks, disks'[i] # disks[i]
      PROVE  /\ disks[i].key = Last(calls).entry.key
             /\ Last(calls).replaced \/ SameDisk(disks[i].value, Last(calls).entry.value)
  <2>1. disks \in Seq(Entries) /\ i \in 1 .. Len(disks)
    BY <1>1 DEF IInv, TypeOK
  <2>2. CASE \E t \in Token \cup {Empty} : SaveToken(t)
    <3>1. PICK t \in Token \cup {Empty} : SaveToken(t)
      BY <2>2
    <3>2. PICK c \in Calls : c = Last(calls) /\ c.is = "auth" /\ Fine(c, disks, scripts, mixed)
      BY <1>1, Waiting
    <3>3. TokenPut(PlaceOf(disks, c.name), t)
      BY <1>1, <3>1, <3>2, Tokens
    <3>4. i = PlaceOf(disks, c.name)
      BY <1>1, <2>1, <3>3 DEF TokenPut
    <3>5. Has(disks, c.name)
      BY <1>1, <3>1, <3>2 DEF SaveToken
    <3>6. disks[i].key = c.name
      BY <2>1, <3>4, <3>5, Place
    <3>7. c.name = c.entry.key /\ (~c.replaced => SameDisk(disks[PlaceOf(disks, c.name)].value, c.entry.value))
      BY <1>1, <3>2, TokenHome
    <3> QED
      BY <3>2, <3>4, <3>6, <3>7
  <2>3. CASE Attach \/ Detach \/ Crash \/ Saving
    BY <1>1, <2>3 DEF Attach, Detach, Crash, Gone, Saving, DeleteOld, WriteField, WriteCrashes, Innermost
  <2>4. CASE OpenDialog \/ CancelDialog \/ ConfirmYes \/ ConfirmNo \/ AuthFails \/ Unwind
    BY <1>1, <2>4 DEF OpenDialog, CancelDialog, ConfirmYes, ConfirmNo, AuthFails, Unwind, Innermost
  <2>5. CASE \E t \in Type, u \in User, n \in Name \cup {Empty} : PressOk(t, u, n)
    BY <1>1, <2>1, <2>5, OkStores
  <2>6. CASE \E k \in Name : ListDisk(k)
    BY <1>1, <2>6 DEF ListDisk
  <2>7. CASE UNCHANGED vars
    BY <1>1, <2>7 DEF vars
  <2> QED
    BY <1>1, <2>2, <2>3, <2>4, <2>5, <2>6, <2>7 DEF Next
<1>2. ASSUME IInv, [Next]_vars
      PROVE  [Innermost("auth") /\ disks' # disks /\ pc' # "down" =>
                LET call == Last(calls)
                    listed == call.entry.value
                IN  ~mixed /\ call.name = listed.nickname =>
                        \A i \in DOMAIN disks : disks'[i] # disks[i] =>
                            /\ disks[i].key = call.entry.key
                            /\ call.replaced \/ [disks[i].value EXCEPT !.token = listed.token] = listed]_vars
  BY <1>1, <1>2 DEF SameDisk
<1> QED
  BY <1>2, Invariant, PTL DEF Spec, TokenGoesToListedDisk

(* A save comes to its end: each of its steps leaves fewer calls of the    *)
(* profile API to make, and no other step comes between (disk.c:12-32).    *)
THEOREM SavesComeToAnEnd == Spec => SavesMoveOn
<1>1. ASSUME IInv, Next, pc \in {"delete", "save"}
      PROVE  ToWrite' < ToWrite
  <2>1. /\ Len(disks) \in Nat /\ at \in 0 .. Len(disks) /\ field \in 0 .. 5
        /\ Len(Fields) = 5
    BY <1>1 DEF IInv, TypeOK, Fields
  <2>2. DeleteOld \/ WriteField \/ Gone
    BY <1>1 DEF Next, Saving, WriteCrashes, Attach, Detach, Crash, OpenDialog, CancelDialog, PressOk,
                ConfirmYes, ConfirmNo, ListDisk, AuthFails, Unwind, SaveToken, Innermost
  <2>3. CASE DeleteOld
    BY <2>1, <2>3 DEF DeleteOld, ToWrite
  <2>4. CASE WriteField
    <3>1. pc = "save" /\ disks' = disks
      BY <2>4 DEF WriteField
    <3>2. \/ field < 5 /\ field' = field + 1 /\ at' = at /\ pc' = "save"
          \/ field = 5 /\ at < Len(disks) /\ field' = 1 /\ at' = at + 1 /\ pc' = "save"
          \/ field = 5 /\ at = Len(disks) /\ pc' = "idle"
      BY <2>1, <2>4, <3>1 DEF WriteField, Advance
    <3>3. ToWrite = 1 + 5 * (Len(disks) - at) + 5 - field
      BY <2>1, <3>1 DEF ToWrite
    <3>4. CASE pc' = "save"
      <4>1. ToWrite' = 1 + 5 * (Len(disks) - at') + 5 - field'
        BY <2>1, <3>1, <3>4 DEF ToWrite, Fields
      <4> QED
        BY <2>1, <3>2, <3>3, <3>4, <4>1
    <3>5. CASE pc' = "idle"
      BY <2>1, <3>3, <3>5 DEF ToWrite
    <3> QED
      BY <3>2, <3>4, <3>5
  <2>5. CASE Gone
    BY <1>1, <2>1, <2>5 DEF Gone, ToWrite
  <2> QED
    BY <2>2, <2>3, <2>4, <2>5
<1>2. ASSUME IInv, [Next]_vars
      PROVE  [(pc \in {"delete", "save"}) => ToWrite' < ToWrite]_vars
  BY <1>1, <1>2
<1> QED
  BY <1>2, Invariant, PTL DEF Spec, SavesMoveOn
=============================================================================
