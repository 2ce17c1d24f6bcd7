---- MODULE ProfileIndex ----
(***************************************************************************)
(* tools/profile-index: the index of the profiles the chart ships, made    *)
(* from a catalog and the values files beside it, and the check that tells *)
(* whether the committed index is still theirs.  Maintainers edit catalog, *)
(* files and index in any order between the calls.                         *)
(*                                                                         *)
(* A file that is read as YAML is the name of its one profile ("several"   *)
(* when it has more, or none) with what the generator looks at; `rest` is  *)
(* everything else in the profile.                                         *)
(***************************************************************************)
EXTENDS DeviceTable, Naturals, Sequences

CONSTANTS Name,       \* names a profile, and a file, may have
          Mixed,      \* MIXED-FLEET, the one file that is not deployable
          Rest,
          Unreadable, \* a file that cannot be read, or parsed
          Missing,    \* no file
          Catalogs,   \* catalogs the maintainers may write
          Contents,   \* values files they may write
          Indexes     \* indexes they may write by hand, or merge

Values == [profile : Name \cup {"several"}, enabled : BOOLEAN,
           ccMode : Mode \cup {"invalid"}, rest : Rest]

\* shown is a family's display name and its model examples, "" if it lacks the
\* former; valid says that a profile name is made of letters, digits and dashes.
ASSUME CatalogAssumption ==
  /\ Mixed \in Name
  /\ Catalogs \subseteq {Unreadable} \cup
       Seq([id : STRING, shown : STRING,
                profiles : Seq([name : Name, valid : BOOLEAN])])
  /\ Contents \subseteq Values \cup {Unreadable}

VARIABLES catalog,   \* catalog.json
          files,     \* <name>.values.yaml for every name
          index,     \* index.json
          verdict    \* how the last call ended, "none" after an edit

indexVars == <<catalog, files, index, verdict>>

-----------------------------------------------------------------------------
(* generate.                                                               *)

\* Where the catalog names a profile: the family, and the place in it.
Slots == UNION {{<<i, j>> : j \in DOMAIN catalog[i].profiles} : i \in DOMAIN catalog}
At(s) == catalog[s[1]].profiles[s[2]]
Named == {At(s).name : s \in Slots}

FamiliesSound ==
  \A i \in DOMAIN catalog :
    /\ catalog[i].id # ""
    /\ \A h \in 1 .. i - 1 : catalog[h].id # catalog[i].id
    /\ catalog[i].shown # "" /\ catalog[i].profiles # <<>>

\* Bug: the names seen are forgotten from one family to the next.
NamesSound_PerFamily ==
  \A s \in Slots : /\ At(s).valid
                   /\ \A t \in Slots \ {s} : s[1] = t[1] => At(s).name # At(t).name

NamesSound ==
  \A s \in Slots : At(s).valid /\ \A t \in Slots \ {s} : At(s).name # At(t).name

FileSound(n) ==
  /\ files[n] \in Values
  /\ files[n].profile = n
  /\ files[n].enabled
  /\ files[n].ccMode \in Mode

NoneUnlisted == \A n \in Name \ {Mixed} : files[n] # Missing => n \in Named

\* The digest is of the whole profile; the file it is in is named after it.
Entry(n) ==
  [name |-> n, ccMode |-> files[n].ccMode, sha256 |-> files[n]]

Output ==
  [i \in DOMAIN catalog |->
     [id |-> catalog[i].id, shown |-> catalog[i].shown,
      profiles |-> [j \in DOMAIN catalog[i].profiles |-> Entry(At(<<i, j>>).name)]]]

Accepted ==
  /\ catalog # Unreadable
  /\ FamiliesSound /\ NamesSound
  /\ \A n \in Named : FileSound(n)
  /\ NoneUnlisted

-----------------------------------------------------------------------------

IndexInit ==
  /\ catalog \in Catalogs
  /\ files = [n \in Name |-> Missing]
  /\ index = Missing
  /\ verdict = "none"

Generate ==
  /\ IF Accepted THEN index' = Output /\ verdict' = "ok"
                 ELSE UNCHANGED index /\ verdict' = "refused"
  /\ UNCHANGED <<catalog, files>>

\* Bug: the index is written before it is found stale.
Check_Heals ==
  /\ verdict' = IF ~Accepted THEN "refused"
                ELSE IF index = Output THEN "ok" ELSE "stale"
  /\ index' = IF Accepted THEN Output ELSE index
  /\ UNCHANGED <<catalog, files>>

\* With --check the index is compared and never written.
Check ==
  /\ verdict' = IF ~Accepted THEN "refused"
                ELSE IF index = Output THEN "ok" ELSE "stale"
  /\ UNCHANGED <<catalog, files, index>>

EditCatalog ==
  /\ catalog' \in Catalogs
  /\ verdict' = "none"
  /\ UNCHANGED <<files, index>>

EditFile(n) ==
  /\ \E content \in Contents \cup {Missing} :
       files' = [files EXCEPT ![n] = content]
  /\ verdict' = "none"
  /\ UNCHANGED <<catalog, index>>

EditIndex ==
  /\ index' \in Indexes \cup {Missing}
  /\ verdict' = "none"
  /\ UNCHANGED <<catalog, files>>

IndexNext ==
  Generate \/ Check \/ EditCatalog \/ EditIndex \/ \E n \in Name : EditFile(n)

IndexSpec == IndexInit /\ [][IndexNext]_indexVars

-----------------------------------------------------------------------------

Entries == UNION {{<<i, j>> : j \in DOMAIN index[i].profiles} : i \in DOMAIN index}
EntryAt(s) == index[s[1]].profiles[s[2]]

\* When a call returns Ok, after whatever edits, the index beside it offers
\* every deployable values file exactly once, with the settings it has now,
\* and nothing that cannot be deployed.
IndexIsDeployable ==
  verdict = "ok" =>
    /\ \A n \in Name \ {Mixed} : files[n] # Missing =>
         \E s \in Entries : EntryAt(s).name = n /\ EntryAt(s).sha256 = files[n]
    /\ \A s \in Entries : /\ \A t \in Entries \ {s} : EntryAt(s).name # EntryAt(t).name
                          /\ files[EntryAt(s).name] \in Values
                          /\ files[EntryAt(s).name].enabled

\* Until something is edited, a check agrees with the call before it: one that
\* follows a success succeeds, and one that found the index stale finds it so
\* again.
ChecksAgree ==
  [][Check /\ verdict # "none" => verdict' = verdict]_indexVars

=============================================================================
