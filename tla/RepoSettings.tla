------------------------------- MODULE RepoSettings -------------------------------
(***************************************************************************)
(* UpdateRepositoryConfigurationWithConfirmation of pkg/github: read what  *)
(* a repository is like, show the sensitive differences to the wanted      *)
(* configuration, ask, take back what the user wants skipped, and apply    *)
(* the rest in three stages, which end at the first error.  The repository *)
(* is shared with everybody who may administer it.                         *)
(***************************************************************************)
EXTENDS Naturals, FiniteSets

CONSTANTS
    Branches,     \* branches that may be default or protected
    NoBranch,     \* the wanted configuration names no default branch
    RepoStates,   \* bound: what the repository is like before an update, and
                  \* after an edit by others
    Targets       \* the configurations that are applied

\* For a branch: no protection (in a target: nothing wanted), protection that
\* administrators may bypass, and one that they may not.
Protections == {"none", "free", "bound"}
Levels == {"none", "read", "admin"}  \* permissions of a team

SettingsOf(defaults) ==
    [private : BOOLEAN, archived : BOOLEAN, default : defaults,
     admins : [Branches -> Protections], team : Levels]

ASSUME SettingsAssumption ==
    /\ NoBranch \notin Branches
    /\ RepoStates # {} /\ RepoStates \subseteq SettingsOf(Branches)
    /\ Targets # {} /\ Targets \subseteq SettingsOf(Branches \union {NoBranch})

VARIABLES
    repository, \* the repository at GitHub
    wasLike,    \* history: what it was like when the update began
    setPC,      \* where the update is, or how it ended
    target,     \* the configuration it was called with
    prompt,     \* with whom to confirm: the user, "auto", or "nobody"
    seen,       \* currentConfig
    misread,    \* history: a read met an unprotected default branch, or failed
    consent,    \* what the update goes on with
    toProtect,  \* branches whose protection is still to be updated
    edited      \* history: somebody else has edited the repository since

settingsVars == <<repository, wasLike, setPC, target, prompt, seen, misread, consent, toProtect, edited>>

Working == {"read", "ask", "patch", "protect", "permit"}

SettingsInit ==
    /\ repository \in RepoStates
    /\ wasLike = repository
    /\ setPC = "idle"
    /\ target = CHOOSE t \in Targets : TRUE
    /\ prompt = "nobody"
    /\ seen = repository
    /\ misread = "no"
    /\ consent = "none"
    /\ toProtect = {}
    /\ edited = FALSE

-----------------------------------------------------------------------------
(* The sensitive changes and their risk *)

RiskOf(field) ==
    CASE field = "private" -> "critical"
      [] field \in {"archive", "default_branch", "branch_protection", "enforce_admins"} -> "high"
      [] field \in {"unarchive", "permission_escalation"} -> "medium"
      [] field = "new_permission" -> "low"

\* AnalyzeRepositoryChanges, by field; a team that loses rights is no change.
Changes(old, new) ==
    {f \in {"private", "archive", "unarchive", "default_branch", "branch_protection",
            "enforce_admins", "permission_escalation", "new_permission"} :
       \/ f = "private" /\ old.private # new.private
       \/ f = "archive" /\ ~old.archived /\ new.archived
       \/ f = "unarchive" /\ old.archived /\ ~new.archived
       \/ f = "default_branch" /\ new.default \notin {old.default, NoBranch}
       \/ f = "branch_protection" /\ \E b \in Branches : old.admins[b] # "none" /\ new.admins[b] = "none"
       \/ f = "enforce_admins" /\ \E b \in Branches : old.admins[b] = "bound" /\ new.admins[b] = "free"
       \/ f = "permission_escalation" /\ old.team = "read" /\ new.team = "admin"
       \/ f = "new_permission" /\ old.team = "none" /\ new.team # "none"}

Risky(fields) == {f \in fields : RiskOf(f) \in {"critical", "high"}}

\* Mutation: protection rules are not taken back.
FilteredSettingsOnly(old, new) ==
    LET kept == Risky(Changes(old, new))
    IN  [new EXCEPT !.private = IF "private" \in kept THEN old.private ELSE @,
                    !.archived = IF "archive" \in kept THEN old.archived ELSE @,
                    !.default = IF "default_branch" \in kept THEN old.default ELSE @]

\* filterConfigBySkippedRisks, for the choice to skip both kinds: what is
\* skipped gets the value that was read; permissions stay as they were read,
\* unless some change of them was shown.
Filtered(old, new) ==
    LET shown == Changes(old, new)
        kept == Risky(shown)
    IN  [private  |-> IF "private" \in kept THEN old.private ELSE new.private,
         archived |-> IF "archive" \in kept THEN old.archived ELSE new.archived,
         default  |-> IF "default_branch" \in kept THEN old.default ELSE new.default,
         admins   |-> [b \in Branches |->
                        IF "enforce_admins" \in kept /\ old.admins[b] # "none" /\ new.admins[b] # "none"
                          THEN old.admins[b] ELSE new.admins[b]],
         team     |-> IF new.team = "none" \/ shown \intersect {"permission_escalation", "new_permission"} # {}
                        THEN new.team ELSE old.team]

-----------------------------------------------------------------------------
(* The update *)

BeginUpdate ==
    /\ setPC \notin Working
    /\ repository \in RepoStates
    /\ target' \in Targets
    /\ prompt' \in {"user", "auto", "nobody"}
    /\ setPC' = IF prompt' = "nobody" THEN "patch" ELSE "read"
    /\ consent' = IF prompt' = "nobody" THEN "waived" ELSE "none"
    /\ wasLike' = repository
    /\ misread' = "no"
    /\ edited' = FALSE
    /\ seen' = repository
    /\ toProtect' = {}
    /\ UNCHANGED repository

\* GetRepositoryConfiguration: settings, then the protection of the default
\* branch, then permissions.  An error that the API answers, be it that the
\* branch is not protected, is an error of the whole, and the update goes on
\* without asking; an answer that is lost counts as nothing there.
ReadFails ==
    /\ setPC = "read"
    /\ misread' \in {"failed"} \union (IF repository.admins[repository.default] = "none" THEN {"unprotected"} ELSE {})
    /\ consent' = "unasked"
    /\ setPC' = "patch"
    /\ UNCHANGED <<repository, wasLike, target, prompt, seen, toProtect, edited>>

ReadConfiguration ==
    /\ setPC = "read"
    /\ \E lost \in SUBSET {"protection", "permissions"} :
         LET home == repository.default
             gotProtection == "protection" \notin lost
         IN  /\ gotProtection => repository.admins[home] # "none"
             /\ seen' = [repository EXCEPT
                          !.admins = [b \in Branches |-> IF b = home /\ gotProtection THEN @[b] ELSE "none"],
                          !.team = IF "permissions" \in lost THEN "none" ELSE @]
             /\ misread' = IF lost = {} THEN "no" ELSE "failed"
    /\ setPC' = IF Changes(seen', target) = {} THEN "patch" ELSE "ask"
    /\ consent' = IF Changes(seen', target) = {} THEN "not needed" ELSE "none"
    /\ UNCHANGED <<repository, wasLike, target, prompt, toProtect, edited>>

Confirm ==
    /\ setPC = "ask"
    /\ \/ consent' = "all"
       \/ /\ prompt = "user"
          /\ Risky(Changes(seen, target)) # {}
          /\ consent' = "skip"
    /\ setPC' = "patch"
    /\ UNCHANGED <<repository, wasLike, target, prompt, seen, misread, toProtect, edited>>

\* No, abort, nothing to skip, or no readable answer.
Decline ==
    /\ setPC = "ask"
    /\ prompt = "user"
    /\ setPC' = "declined"
    /\ UNCHANGED <<repository, wasLike, target, prompt, seen, misread, consent, toProtect, edited>>

Wanted == IF consent = "skip" THEN Filtered(seen, target) ELSE target

PatchSettings ==
    /\ setPC = "patch"
    /\ repository' = [repository EXCEPT !.private = Wanted.private, !.archived = Wanted.archived,
                        !.default = IF Wanted.default = NoBranch THEN @ ELSE Wanted.default]
    /\ toProtect' = {b \in Branches : Wanted.admins[b] # "none"}
    /\ setPC' \in {IF toProtect' = {} THEN "permit" ELSE "protect", "error"}
    /\ UNCHANGED <<wasLike, target, prompt, seen, misread, consent, edited>>

\* One branch after another; protection that is not wanted any more stays.
ProtectBranch ==
    /\ setPC = "protect"
    /\ \E b \in toProtect :
         /\ repository' = [repository EXCEPT !.admins[b] = Wanted.admins[b]]
         /\ toProtect' = toProtect \ {b}
    /\ setPC' \in {IF toProtect' = {} THEN "permit" ELSE "protect", "error"}
    /\ UNCHANGED <<wasLike, target, prompt, seen, misread, consent, edited>>

UpdatePermissions ==
    /\ setPC = "permit"
    /\ repository' = [repository EXCEPT !.team = IF Wanted.team = "none" THEN @ ELSE Wanted.team]
    /\ setPC' \in {"ok", "error"}
    /\ UNCHANGED <<wasLike, target, prompt, seen, misread, consent, toProtect, edited>>

\* A request that is refused or does not arrive; the three actions above may
\* also lose their answer.  The program may as well be killed.
UpdateFails ==
    /\ setPC \in Working
    /\ setPC' = "error"
    /\ UNCHANGED <<repository, wasLike, target, prompt, seen, misread, consent, toProtect, edited>>

SomebodyEdits ==
    /\ repository' \in RepoStates
    /\ edited' = TRUE
    /\ UNCHANGED <<wasLike, setPC, target, prompt, seen, misread, consent, toProtect>>

SettingsNext ==
    \/ BeginUpdate
    \/ ReadFails
    \/ ReadConfiguration
    \/ Confirm
    \/ Decline
    \/ PatchSettings
    \/ ProtectBranch
    \/ UpdatePermissions
    \/ UpdateFails
    \/ SomebodyEdits

SettingsTypeOK ==
    /\ repository \in SettingsOf(Branches)
    /\ wasLike \in SettingsOf(Branches)
    /\ setPC \in Working \union {"idle", "declined", "ok", "error"}
    /\ target \in SettingsOf(Branches \union {NoBranch})
    /\ prompt \in {"user", "auto", "nobody"}
    /\ seen \in SettingsOf(Branches)
    /\ misread \in {"no", "unprotected", "failed"}
    /\ consent \in {"none", "waived", "unasked", "not needed", "skip", "all"}
    /\ toProtect \subseteq Branches
    /\ edited \in BOOLEAN

\* The risky changes made so far, in any of the branches.
MadeSoFar == Risky(Changes(wasLike, repository))

\* The branches whose protection administrators may bypass since.
Loosened == {b \in Branches : wasLike.admins[b] = "bound" /\ repository.admins[b] = "free"}

\* None was made but in the protection of other branches than the default one,
\* which GetRepositoryConfiguration does not read: such a protection is loosened
\* without having been shown, and no answer takes it back.
OnlyUnreadLoosened ==
    /\ MadeSoFar \subseteq {"enforce_admins"}
    /\ wasLike.default \notin Loosened

Unasked == consent \notin {"all", "waived"}

\* What an update that ends well leaves undone: nothing of what it may do;
\* when risky changes were skipped, at least none of the others that were shown.
AllMade ==
    /\ target.default \in {NoBranch, repository.default}
    /\ repository.private = target.private /\ repository.archived = target.archived
    /\ \A b \in Branches : target.admins[b] \in {"none", repository.admins[b]}
    /\ target.team \in {"none", repository.team}

OthersMade ==
    Changes(seen, target) \intersect Changes(repository, target) \subseteq Risky(Changes(seen, target))

(***************************************************************************)
(* Consent and effect agree at every point of an update, finished, failed  *)
(* half-way or cut off, unless a read went wrong or somebody else edited   *)
(* the repository meanwhile.  A critical or high-risk change is made only  *)
(* if the user said yes to all, or waived being asked, with one exception: *)
(* for branches other than the default one the code lets administrators    *)
(* bypass a protection without asking, as it never reads what these        *)
(* branches are like.  And an update that ends well has made every change, *)
(* but for the risky ones if skipped.                                      *)
(***************************************************************************)
SettingsFollowConsent ==
    /\ misread = "no" /\ ~edited /\ Unasked => OnlyUnreadLoosened
    /\ setPC = "ok" /\ ~edited => IF consent = "skip" THEN OthersMade ELSE AllMade

\* "Branch protection might not be enabled, which is OK": that the default
\* branch is unprotected is no reason to make risky changes unasked.
UnprotectedIsAsked ==
    misread \in {"no", "unprotected"} /\ ~edited /\ Unasked => OnlyUnreadLoosened
================================================================================
