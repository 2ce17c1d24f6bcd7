---- MODULE ProfileIndexProofs ----
(***************************************************************************)
(* What a verdict on the profile index is worth, for any names, catalogs   *)
(* and values files.                                                       *)
(***************************************************************************)
EXTENDS ProfileIndex, TLAPS

\* A verdict is still true of the files, until one is edited.
VerdictStands ==
  /\ catalog \in Catalogs
  /\ verdict \in {"none", "ok", "stale", "refused"}
  /\ verdict = "ok" => Accepted /\ index = Output
  /\ verdict = "stale" => Accepted /\ index # Output
  /\ verdict = "refused" => ~Accepted

\* What is accepted and put out is a matter of catalog and files only.
LEMMA OfFilesOnly ==
  ASSUME UNCHANGED <<catalog, files>>
  PROVE  Accepted' = Accepted /\ Output' = Output
<1>1. Slots' = Slots /\ \A s : At(s)' = At(s)
  BY DEF Slots, At
<1>2. Named' = Named
  BY <1>1 DEF Named
<1>3. FamiliesSound' = FamiliesSound
  BY DEF FamiliesSound
<1>4. NamesSound' = NamesSound
  BY <1>1 DEF NamesSound
<1>5. \A n : FileSound(n)' = FileSound(n)
  BY DEF FileSound
<1>6. NoneUnlisted' = NoneUnlisted
  BY <1>2 DEF NoneUnlisted
<1>7. Accepted' = Accepted
  BY <1>2, <1>3, <1>4, <1>5, <1>6 DEF Accepted
<1>8. Output' = Output
  BY DEF Output, At, Entry
<1> QED
  BY <1>7, <1>8

LEMMA VerdictStandsAlways == IndexSpec => []VerdictStands
<1>1. IndexInit => VerdictStands
  BY DEF IndexInit, VerdictStands
<1>2. VerdictStands /\ [IndexNext]_indexVars => VerdictStands'
  <2> SUFFICES ASSUME VerdictStands, [IndexNext]_indexVars PROVE VerdictStands'
    OBVIOUS
  <2>1. CASE Generate
    BY <2>1, OfFilesOnly DEF Generate, VerdictStands
  <2>2. CASE Check
    BY <2>2, OfFilesOnly DEF Check, VerdictStands
  <2>3. CASE EditCatalog
    BY <2>3 DEF EditCatalog, VerdictStands
  <2>4. ASSUME NEW n \in Name, EditFile(n) PROVE VerdictStands'
    BY <2>4 DEF EditFile, VerdictStands
  <2>5. CASE EditIndex
    BY <2>5 DEF EditIndex, VerdictStands
  <2>6. CASE UNCHANGED indexVars
    BY <2>6, OfFilesOnly DEF indexVars, VerdictStands
  <2> QED
    BY <2>1, <2>2, <2>3, <2>4, <2>5, <2>6 DEF IndexNext
<1> QED
  BY <1>1, <1>2, PTL DEF IndexSpec

\* An accepted catalog is one that could be read.
LEMMA Readable ==
  ASSUME catalog \in Catalogs, Accepted
  PROVE  /\ catalog \in Seq([id : STRING, shown : STRING,
                             profiles : Seq([name : Name, valid : BOOLEAN])])
         /\ \A s \in Slots : /\ s = <<s[1], s[2]>> /\ s[1] \in DOMAIN catalog
                             /\ s[2] \in DOMAIN catalog[s[1]].profiles
                             /\ At(s).name \in Named
<1>1. catalog \in Seq([id : STRING, shown : STRING,
                     profiles : Seq([name : Name, valid : BOOLEAN])])
  BY CatalogAssumption DEF Accepted
<1>2. ASSUME NEW s \in Slots
      PROVE  /\ s = <<s[1], s[2]>> /\ s[1] \in DOMAIN catalog
             /\ s[2] \in DOMAIN catalog[s[1]].profiles
  <2>1. PICK i \in DOMAIN catalog : s \in {<<i, j>> : j \in DOMAIN catalog[i].profiles}
    BY <1>2 DEF Slots
  <2>2. PICK j \in DOMAIN catalog[i].profiles : s = <<i, j>>
    BY <2>1
  <2>3. s[1] = i /\ s[2] = j
    BY <2>2
  <2> QED
    BY <2>2, <2>3
<1>3. \A s \in Slots : At(s).name \in Named
  BY DEF Named
<1> QED
  BY <1>1, <1>2, <1>3

\* An entry of the output is the one of the catalog's name in its place.
LEMMA OutputEntries ==
  ASSUME catalog \in Catalogs, Accepted, index = Output
  PROVE  /\ Entries = Slots
         /\ \A s \in Slots : EntryAt(s) = Entry(At(s).name)
<1>1. DOMAIN index = DOMAIN catalog
  BY DEF Output
<1>2. \A i \in DOMAIN catalog : DOMAIN index[i].profiles = DOMAIN catalog[i].profiles
  BY DEF Output
<1>3. Entries = Slots
  BY <1>1, <1>2 DEF Entries, Slots
<1>4. ASSUME NEW s \in Slots PROVE EntryAt(s) = Entry(At(s).name)
  <2>1. s = <<s[1], s[2]>> /\ s[1] \in DOMAIN catalog /\ s[2] \in DOMAIN catalog[s[1]].profiles
    BY Readable
  <2>2. index[s[1]].profiles[s[2]] = Entry(At(<<s[1], s[2]>>).name)
    BY <2>1 DEF Output
  <2> QED
    BY <2>1, <2>2 DEF EntryAt
<1> QED
  BY <1>3, <1>4

\* An index that a call returned Ok for offers every deployable values file
\* exactly once, with the settings it has now, and nothing else.
THEOREM IndexIsDeployableHolds == IndexSpec => []IndexIsDeployable
<1>1. VerdictStands => IndexIsDeployable
  <2> SUFFICES ASSUME VerdictStands, verdict = "ok"
               PROVE  IndexIsDeployable
    BY DEF IndexIsDeployable
  <2>1. catalog \in Catalogs /\ Accepted /\ index = Output
    BY DEF VerdictStands
  <2>2. /\ Entries = Slots
        /\ \A s \in Slots : EntryAt(s) = Entry(At(s).name) /\ At(s).name \in Named
    BY <2>1, OutputEntries, Readable
  <2>3. ASSUME NEW n \in Name \ {Mixed}, files[n] # Missing
        PROVE  \E s \in Entries : EntryAt(s).name = n /\ EntryAt(s).sha256 = files[n]
    <3>1. PICK s \in Slots : At(s).name = n
      BY <2>1, <2>3 DEF Accepted, NoneUnlisted, Named
    <3> QED
      BY <2>2, <3>1 DEF Entry
  <2>4. ASSUME NEW s \in Entries
        PROVE  /\ \A t \in Entries \ {s} : EntryAt(s).name # EntryAt(t).name
               /\ files[EntryAt(s).name] \in Values
               /\ files[EntryAt(s).name].enabled
    <3>1. EntryAt(s).name = At(s).name /\ FileSound(At(s).name)
      BY <2>1, <2>2, <2>4 DEF Accepted, Entry
    <3>2. \A t \in Slots \ {s} : At(s).name # At(t).name
      BY <2>1, <2>2, <2>4 DEF Accepted, NamesSound
    <3> QED
      BY <2>2, <3>1, <3>2 DEF FileSound, Entry
  <2> QED
    BY <2>3, <2>4 DEF IndexIsDeployable
<1> QED
  BY <1>1, VerdictStandsAlways, PTL

\* Until something is edited, a check agrees with the call before it.
THEOREM ChecksAgreeHolds == IndexSpec => ChecksAgree
<1>1. VerdictStands /\ [IndexNext]_indexVars =>
        [Check /\ verdict # "none" => verdict' = verdict]_indexVars
  BY DEF VerdictStands, Check
<1> QED
  BY <1>1, VerdictStandsAlways, PTL DEF IndexSpec, ChecksAgree

=============================================================================
