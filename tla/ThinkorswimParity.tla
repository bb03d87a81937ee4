------------------------- MODULE ThinkorswimParity --------------------------
(***************************************************************************)
(* The comparison of the momentum studies with what an operator read off   *)
(* or exported from Thinkorswim: a folder with a manifest and candle files,*)
(* the validator that writes a report beside them, and the status that the *)
(* settings page derives from the manifest of now and the report of then.  *)
(*                                                                         *)
(* An entry of the manifest is a record of what it declares; Absent stands *)
(* for a key that is not there and values are in tenths.  wellFormed says  *)
(* whether the row's names, dates, numbers and keys can be read at all.    *)
(***************************************************************************)
EXTENDS Integers, Sequences, FiniteSets

CONSTANTS Manifests,  \* the manifests an operator may save: sequences of entries
          Files,      \* the files that entries name
          Computed,   \* [Fields -> Int \cup {Absent}]: what MacMarket computes
          Label,      \* and its label of the total
          Exported    \* what the last row of a study file says, or Unreadable

\* Manifests are finite sequences.
ASSUME ParityAssumption == \A m \in Manifests : m \in Seq({m[i] : i \in DOMAIN m})

Absent == -99999
Unreadable == [broken |-> TRUE]

VARIABLES manifest,  \* the manifest in the folder, or NoManifest
          present,   \* the files in the folder that can be read
          report,    \* the results of the last validation, or NoReport
          edited     \* the folder was changed since

folderVars == <<manifest, present, report, edited>>

NoManifest == <<>>
NoReport   == [made |-> FALSE]

\* Totals, an oscillator line, a component of the composite, and the HiLo
\* scalar that MacMarket does not compute; a label and a flag.
Fields == {"total", "osc", "component", "scalar"}
Labels == {"label", "flag"}

Modes == {"exported_study_csv", "visual_observation", "visual_attestation"}

Given(map)  == {f \in Fields : map[f] # Absent}
Said(map)   == {f \in Labels : map[f] # Absent}
Empty(map)  == Given(map) = {} /\ Said(map) = {}

-----------------------------------------------------------------------------
(* Loading a manifest.                                                     *)

\* A mode that is spelled out wins over the shape of the entry.
ModeOf(e) ==
  IF e.mode # "unsaid" THEN e.mode
  ELSE IF e.hasTos /\ e.hasMm THEN "visual_attestation"
  ELSE IF e.hasObserved THEN "visual_observation"
  ELSE "exported_study_csv"

\* Faulty variant: readings of both sides are let through in every mode.
EntryRefused_AnyMode(e) ==
  \/ ~e.wellFormed \/ ModeOf(e) \notin Modes
  \/ e.hasObserved /\ e.hasExpected
  \/ ModeOf(e) = "exported_study_csv" /\ Empty(e.latest)
  \/ ModeOf(e) # "visual_attestation" /\ e.bars = "none"
  \/ ModeOf(e) = "visual_attestation" /\ (Empty(e.tos) \/ Empty(e.mm))

\* observed_latest and expected_latest exclude each other, candles are needed
\* but for an attestation, and its readings and prices belong to no other mode.
EntryRefused(e) ==
  \/ ~e.wellFormed \/ ModeOf(e) \notin Modes
  \/ e.hasObserved /\ e.hasExpected
  \/ ModeOf(e) = "exported_study_csv" /\ Empty(e.latest)
  \/ ModeOf(e) # "visual_attestation" /\ e.bars = "none"
  \/ ModeOf(e) = "visual_attestation" /\ (Empty(e.tos) \/ Empty(e.mm))
  \/ ModeOf(e) # "visual_attestation"
       /\ (e.hasTos \/ e.hasMm \/ e.tosClose # Absent \/ e.mmClose # Absent)

ManifestValid(m) ==
  /\ m # <<>>
  /\ \A i \in DOMAIN m : ~EntryRefused(m[i])
  /\ \A i, j \in DOMAIN m : m[i].name = m[j].name => i = j

-----------------------------------------------------------------------------
(* Comparing an entry.                                                     *)

\* The entry's own tolerance, else the default of the field.
Tolerance(e, f) ==
  IF e.tolerance[f] # Absent THEN e.tolerance[f]
  ELSE [total |-> 20, osc |-> 10, component |-> 10, scalar |-> 50][f]

AttestationTolerance(e, f) ==
  IF e.tolerance[f] # Absent THEN e.tolerance[f]
  ELSE [total |-> 20, osc |-> 15, component |-> 50, scalar |-> 20][f]

CloseTolerance(e) == IF e.closeTolerance # Absent THEN e.closeTolerance ELSE 1

Apart(x, y, tolerance) == x - y > tolerance \/ y - x > tolerance

\* The label of the snapshot; its flags are read from a record that has none,
\* and are false whatever the chart says of the bar.
ActualLabel(f) == IF f = "label" THEN Label ELSE 0

\* The fields of a computed comparison that disagree: the reference-only
\* scalar never does, and a field that is not computed always does.
Disagreeing(e) ==
  {f \in Given(e.latest) \ {"scalar"} :
     Computed[f] = Absent \/ Apart(Computed[f], e.latest[f], Tolerance(e, f))}

LabelsDisagree(e) == \E f \in Said(e.latest) : e.latest[f] # ActualLabel(f)

\* The last row of the study file, compared with what the entry expects in
\* the fields it expects; a file that cannot be read is a disagreement, and
\* one that is not there is not asked for.
StudyDisagrees(e) ==
  /\ ModeOf(e) = "exported_study_csv" /\ e.study \in present
  /\ \/ Exported = Unreadable
     \/ /\ Exported # Unreadable
        /\ \E f \in Given(e.latest) :
             Exported[f] # Absent /\ Apart(Exported[f], e.latest[f], Tolerance(e, f))

Computation(e) ==
  IF ModeOf(e) = "visual_observation" /\ Empty(e.latest) THEN "skipped_missing_observation"
  ELSE IF e.bars \notin present THEN "skipped_missing_data"
  ELSE IF e.higher # "none" /\ e.higher \notin present THEN "skipped_missing_data"
  ELSE IF Disagreeing(e) # {} \/ StudyDisagrees(e) \/ (e.labelMustMatch /\ LabelsDisagree(e))
  THEN "failed"
  ELSE "passed"

CommonFields(e) == Given(e.tos) \cap Given(e.mm)
CommonLabels(e) == Said(e.tos) \cap Said(e.mm)

OffFields(e) == {f \in CommonFields(e) : Apart(e.tos[f], e.mm[f], AttestationTolerance(e, f))}
OffLabels(e) == {f \in CommonLabels(e) : e.tos[f] # e.mm[f]}

ClosesApart(e) ==
  e.tosClose # Absent /\ e.mmClose # Absent /\ Apart(e.tosClose, e.mmClose, CloseTolerance(e))

\* A strict entry fails on its closes alone.
BrokenByClose(e) == e.strict /\ ClosesApart(e)

\* Faulty variant: the fields that only one side has count as compared.
Attestation_OneSided(e) ==
  IF OffFields(e) # {} \/ (e.labelMustMatch /\ OffLabels(e) # {}) THEN "visual_failed"
  ELSE IF BrokenByClose(e) THEN "visual_failed"
  ELSE "visual_attested"

\* An attestation compares the two sides' readings where both have one; closes
\* that are too far apart count only on strict entries, and labels only when
\* they must match.
Attestation(e) ==
  IF CommonFields(e) = {} /\ CommonLabels(e) = {} THEN "visual_partial"
  ELSE IF OffFields(e) # {} \/ (e.labelMustMatch /\ OffLabels(e) # {}) THEN "visual_failed"
  ELSE IF BrokenByClose(e) THEN "visual_failed"
  ELSE "visual_attested"

\* What the drill-down of a symbol shows of an attestation.
Classification(e) ==
  LET lines == CommonFields(e) \cap {"osc"}
      aligned == lines # {} /\ lines \cap OffFields(e) = {}
  IN  IF Attestation(e) = "visual_partial" THEN {}
      ELSE (IF aligned THEN {"oscillator_aligned"} ELSE {})
      \cup (IF lines \cap OffFields(e) # {} THEN {"oscillator_mismatch"} ELSE {})
      \cup (IF "total" \in OffFields(e) THEN {"composite_mismatch"} ELSE {})
      \cup (IF ClosesApart(e) THEN {"bar_context_mismatch"} ELSE {})
      \cup (IF OffLabels(e) # {} /\ "total" \notin OffFields(e) /\ aligned /\ ~e.labelMustMatch
            THEN {"label_mismatch_only"} ELSE {})

Result(e) ==
  [name |-> e.name, mode |-> ModeOf(e),
   status |-> IF ModeOf(e) = "visual_attestation" THEN Attestation(e) ELSE Computation(e),
   class |-> IF ModeOf(e) = "visual_attestation" THEN Classification(e) ELSE {}]

-----------------------------------------------------------------------------
(* The report and its tallies.                                             *)

Passing == {"passed", "visual_attested"}
Failing == {"failed", "visual_failed"}

Tally(results, statuses, mode) ==
  Cardinality({i \in DOMAIN results : results[i].status \in statuses
                                        /\ (mode = "all" \/ results[i].mode = mode)})

ModeCounts(results) ==
  [mode \in Modes |->
     [total   |-> Cardinality({i \in DOMAIN results : results[i].mode = mode}),
      passed  |-> Tally(results, Passing, mode),
      failed  |-> Tally(results, Failing, mode),
      partial |-> Tally(results, {"visual_partial"}, mode)]]

\* Faulty variant: nothing failed is passed.
Overall_NoneFailed(r) ==
  IF ~r.valid \/ r.total = 0 THEN "missing"
  ELSE IF r.failed > 0 THEN "failed"
  ELSE IF r.passed = 0 THEN "ready"
  ELSE "passed"

Overall(r) ==
  IF ~r.valid \/ r.total = 0 THEN "missing"
  ELSE IF r.failed > 0 THEN "failed"
  ELSE IF r.passed = 0 THEN "ready"
  ELSE IF r.passed < r.total THEN "partial"
  ELSE "passed"

AttestationStatus(count) ==
  IF count.total = 0 THEN "none"
  ELSE IF count.failed > 0 THEN "visual_failed"
  ELSE IF count.partial > 0 THEN "visual_partial"
  ELSE IF count.passed = count.total THEN "visual_attested"
  ELSE "visual_partial"

\* A manifest that cannot be loaded is reported with one row of no fixture.
ValidationReport ==
  LET valid   == ManifestValid(manifest)
      results == IF valid THEN [i \in DOMAIN manifest |-> Result(manifest[i])]
                 ELSE IF manifest = NoManifest THEN <<>>
                 ELSE <<[name |-> "manifest", mode |-> "exported_study_csv",
                         status |-> "skipped_manifest_missing", class |-> {}]>>
      r == [valid |-> valid, total |-> IF valid THEN Len(manifest) ELSE 0,
            passed |-> Tally(results, Passing, "all"), failed |-> Tally(results, Failing, "all")]
  IN  [made |-> TRUE, results |-> results, passed |-> r.passed, failed |-> r.failed,
       overall |-> Overall(r), counts |-> ModeCounts(results)]

-----------------------------------------------------------------------------
(* The status of the folder: files and manifest of now, report of then.    *)

\* The files an entry names must exist; an attestation needs none.
Ready(e) ==
  ModeOf(e) = "visual_attestation"
    \/ {e.bars, e.study, e.higher} \ {"none"} \subseteq present

Declared(mode) ==
  IF ManifestValid(manifest)
  THEN Cardinality({i \in DOMAIN manifest : ModeOf(manifest[i]) = mode}) ELSE 0

\* The counts of the report, else those the manifest declares.
Counts ==
  IF report.made THEN report.counts
  ELSE [mode \in Modes |-> [total |-> Declared(mode), passed |-> 0, failed |-> 0, partial |-> 0]]

WorkflowStatus ==
  IF ~ManifestValid(manifest) THEN "missing"
  ELSE IF \E i \in DOMAIN manifest : ~Ready(manifest[i]) THEN "partial"
  ELSE IF report.made /\ report.overall \in {"passed", "failed", "partial"} THEN report.overall
  ELSE "ready"

SettingsCard ==
  [status      |-> WorkflowStatus,
   attestation |-> AttestationStatus(Counts["visual_attestation"]),
   reviewed    |-> Counts["visual_observation"].total + Counts["visual_attestation"].total > 0,
   exported    |-> Counts["exported_study_csv"].total > 0,
   pending     |-> WorkflowStatus # "passed"]

-----------------------------------------------------------------------------
FolderInit == manifest = NoManifest /\ present = {} /\ report = NoReport /\ edited = FALSE

SaveManifest(m) == manifest' = m /\ edited' = TRUE /\ UNCHANGED <<present, report>>

DropFile(f)   == present' = present \cup {f} /\ edited' = TRUE /\ UNCHANGED <<manifest, report>>
RemoveFile(f) == present' = present \ {f} /\ edited' = TRUE /\ UNCHANGED <<manifest, report>>

\* The validator with --write-report; it writes a report in every case.
Validate == report' = ValidationReport /\ edited' = FALSE /\ UNCHANGED <<manifest, present>>

FolderNext ==
  \/ \E m \in Manifests : SaveManifest(m)
  \/ \E f \in Files : DropFile(f) \/ RemoveFile(f)
  \/ Validate

FolderSpec == FolderInit /\ [][FolderNext]_folderVars

-----------------------------------------------------------------------------
(* Properties.                                                             *)

\* While the folder is as it was validated, the card says passed only if no
\* entry would be skipped, failed or partly compared, every attestation has
\* compared at least one reading of both sides, and the three tallies that
\* are kept apart (the report's, its modes' and the card's) agree.
CardIsEarned ==
  report.made /\ ~edited /\ SettingsCard.status = "passed" =>
    /\ \A i \in DOMAIN manifest :
         /\ Result(manifest[i]).status \in Passing
         /\ ModeOf(manifest[i]) = "visual_attestation" =>
              /\ CommonFields(manifest[i]) \cup CommonLabels(manifest[i]) # {}
              /\ "oscillator_mismatch" \notin Result(manifest[i]).class
    /\ SettingsCard.attestation \in {"none", "visual_attested"}
    /\ report.passed = Len(manifest)
    /\ \A mode \in Modes : report.counts[mode].passed = Declared(mode)

\* No reading that an operator wrote beside the wrong mode is dropped in
\* silence: a manifest with prices or readings of both sides on an entry
\* that does not compare them is never reported as passed.
NothingIsDropped ==
  report.made /\ ~edited /\ SettingsCard.status = "passed" =>
    \A i \in DOMAIN manifest :
      manifest[i].hasTos \/ manifest[i].hasMm \/ manifest[i].tosClose # Absent
        => ModeOf(manifest[i]) = "visual_attestation"

\* The card of the fixture folder says passed only of what was compared, and
\* no reading that was given is dropped.
ParityIsEarned == CardIsEarned /\ NothingIsDropped

\* A status of passed rests on at least one compared value per entry.  No run
\* checks it: an entry with nothing to compare passes (README, known divergences).
PassedIsCompared ==
  report.made /\ ~edited /\ SettingsCard.status = "passed" =>
    \A i \in DOMAIN manifest :
      ModeOf(manifest[i]) # "visual_attestation" =>
        \/ Given(manifest[i].latest) \ {"scalar"} # {}
        \/ manifest[i].labelMustMatch /\ Said(manifest[i].latest) # {}
=============================================================================
