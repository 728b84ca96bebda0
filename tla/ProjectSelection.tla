-------------------------- MODULE ProjectSelection --------------------------
(***************************************************************************)
(* The project filter that all screens share (frontend/components/bjt/     *)
(* project-provider.tsx): the selection lives in the provider's state and  *)
(* in localStorage, a ?project= parameter of the page overrides it, and an *)
(* effect drops a project that is not in the loaded list.  React runs the  *)
(* effects of one commit in order, the syncer's before the provider's, all *)
(* on the values of that commit, and the last update wins.                 *)
(***************************************************************************)
EXTENDS Naturals, FiniteSets

CONSTANTS Projects, MaxMoves   \* MaxMoves bounds what people do

VARIABLES
  url,       \* the ?project= parameter: "none", "all" or a project
  selected,  \* selectedProjectId
  stored,    \* localStorage[STORAGE_KEY]: "none", "all" or a project
  known,     \* the projects query: {} until it is answered
  mounted,   \* the mount effect has run
  dirty,     \* a render is committed whose effects have not run
  moves

pvars == <<url, selected, stored, known, mounted, dirty, moves>>

Choice == Projects \cup {"all"}

PInit ==
  /\ url \in Choice \cup {"none"} /\ stored \in Choice \cup {"none"}
  /\ selected = "all" /\ known = {} /\ mounted = FALSE /\ dirty = TRUE /\ moves = 0

(* A fault: the parameter "all", which is no number, is ignored. *)
SyncUrlNumbers(sel) == IF url \in Projects THEN url ELSE sel

(* UrlProjectSyncer *)
SyncUrl(sel) == IF url # "none" THEN url ELSE sel

(* the mount effect, from what is stored by now *)
Restore(sel, now) == IF ~mounted /\ now # "none" THEN now ELSE sel

(* the validation: only against a list that was answered and is not empty *)
Unlisted(sel) == sel # "all" /\ known # {} /\ sel \notin known

Effects ==
  /\ dirty
  /\ LET synced  == SyncUrl(selected)
         written == IF synced # selected THEN synced ELSE stored
     IN  /\ selected' = IF Unlisted(selected) THEN "all" ELSE Restore(synced, written)
         /\ stored' = IF Unlisted(selected) THEN "all" ELSE written
  /\ mounted' = TRUE /\ dirty' = (selected' # selected)
  /\ UNCHANGED <<url, known, moves>>

Move == moves < MaxMoves /\ moves' = moves + 1

(* ProjectSelectFilter, which is disabled while the list loads *)
Select(v) ==
  /\ Move /\ known # {} /\ v \in known \cup {"all"} /\ v # selected
  /\ selected' = v /\ stored' = v /\ dirty' = TRUE
  /\ UNCHANGED <<url, known, mounted>>

(* a link to a page, with or without the parameter; the links of a project's
   row also select it *)
Navigate(u) ==
  /\ Move /\ u # url /\ url' = u /\ dirty' = TRUE
  /\ UNCHANGED <<selected, stored, known, mounted>>
OpenProject(p) ==
  /\ Move /\ p \in known /\ url' = p /\ selected' = p /\ stored' = p /\ dirty' = TRUE
  /\ UNCHANGED <<known, mounted>>

(* the list is answered, first or again: projects come and go *)
ProjectsAnswered(ps) ==
  /\ Move /\ known' = ps /\ ps # known /\ dirty' = TRUE
  /\ UNCHANGED <<url, selected, stored, mounted>>

PNext ==
  \/ Effects
  \/ \E v \in Choice : Select(v)
  \/ \E u \in Choice \cup {"none"} : Navigate(u)
  \/ \E p \in Projects : OpenProject(p)
  \/ \E ps \in SUBSET Projects : ProjectsAnswered(ps)

-----------------------------------------------------------------------------
Contested == url \in Projects /\ known # {} /\ url \notin known
Agreed    == /\ ~dirty
             /\ url # "none" => selected = url
             /\ ~Unlisted(selected)
             /\ stored \in {selected, "none"}

(* The effects come to rest with the parameter of the page, the selection and
   what is stored in agreement, in whatever order the page, the stored value
   and the list arrive - unless the parameter names a project that is not in
   the list, over which the syncer and the validation contend for ever. *)
SelectionSettles == <>[]~Contested => <>[]Agreed
=============================================================================
