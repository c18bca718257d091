---------------------------- MODULE EuiccDisabler ----------------------------
(***************************************************************************)
(* EuiccDisabler.java: at the end of every boot the packages of the eUICC  *)
(* are enabled if every package they depend on is there and enabled, and   *)
(* disabled otherwise.                                                     *)
(***************************************************************************)
EXTENDS Integers

CONSTANTS
    Dependencies,  \* EUICC_DEPENDENCIES
    Packages       \* EUICC_PACKAGES, as 1 .. their number

ASSUME EuiccAssumption == Packages \in Nat

VARIABLES
    euiccPc,        \* what runs
    present,        \* dependencies that are installed and enabled, as last looked up
    known,          \* packages of the eUICC that are installed
    euicc,          \* those that are enabled
    flag, package   \* the setting and the loop of enableOrDisableEuicc

euiccVars == <<euiccPc, present, known, euicc, flag, package>>

EuiccInit ==
    /\ euiccPc = "idle"
    /\ present = {} /\ known = {} /\ euicc = {} /\ flag = FALSE /\ package = 1

\* Bug: one dependency is enough.
DisablesIfNone(on) == on = {}
Disables(on) == on # Dependencies

\* What is installed and enabled at that time is an input; a boot may have ended
\* the last loop anywhere.
BootCompleted ==
    /\ euiccPc' = "packages" /\ package' = 1
    /\ present' \in SUBSET Dependencies
    /\ known' \in SUBSET (1 .. Packages)
    /\ euicc' \in SUBSET known'
    /\ flag' = Disables(present')

\* setApplicationEnabledSetting throws for a package that is not installed, and
\* nobody catches it.
\* Bug: it is set all the same.
InstalledAssumed(p) == TRUE
Installed(p) == p \in known
SetPackage ==
    /\ euiccPc = "packages"
    /\ package <= Packages
    /\ IF Installed(package)
       THEN /\ euicc' = IF flag THEN euicc \ {package} ELSE euicc \cup {package}
            /\ package' = package + 1
            /\ UNCHANGED euiccPc
       ELSE euiccPc' = "thrown" /\ UNCHANGED <<euicc, package>>
    /\ UNCHANGED <<present, known, flag>>

AllSet ==
    /\ euiccPc = "packages"
    /\ package > Packages
    /\ euiccPc' = "done"
    /\ UNCHANGED <<present, known, euicc, flag, package>>

EuiccNext == BootCompleted \/ SetPackage \/ AllSet

EuiccSpec == EuiccInit /\ [][EuiccNext]_euiccVars

-----------------------------------------------------------------------------
(* Properties.                                                              *)

\* Every variable has its type.
EuiccTypeOK ==
    /\ euiccPc \in {"idle", "packages", "thrown", "done"}
    /\ present \subseteq Dependencies
    /\ known \subseteq 1 .. Packages /\ euicc \subseteq known
    /\ flag \in BOOLEAN /\ package \in 1 .. Packages + 1

\* After a boot all packages of the eUICC are enabled, or none is: all if every
\* package they depend on is there and enabled.
EuiccFollows ==
    euiccPc = "done" => euicc = IF present = Dependencies THEN 1 .. Packages ELSE {}
=============================================================================
