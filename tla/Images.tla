-------------------------------- MODULE Images --------------------------------
(***************************************************************************)
(* yellowbox.image_build and the image side of yellowbox.containers: how   *)
(* the image that a tag stands for is built, brought up to date from a     *)
(* registry before a container is made of it, and removed.                 *)
(*                                                                         *)
(* The model has one tag, or the id of an anonymous image, and the process *)
(* one cache of what it has fetched.  The registry may fail to answer any  *)
(* call.                                                                   *)
(***************************************************************************)
\* The one the registry had before, the one it has, and the one build_image makes.
ImageVersions == {"old", "new", "built"}

NoImage == "none"

VARIABLES
  local,       \* the image the daemon has under the tag
  remote,      \* the image the registry has under it
  cache,       \* the result of _get_up_to_date_image that lru_cache holds
  fetch,       \* where _get_up_to_date_image is: "idle", "look", "compare", "update",
               \* "pull", "fetched" or "failed"
  build,       \* where build_image is: "none", "log", "yielded", "left" or "failed"
  output,      \* it was given an output
  idSeen,      \* the log has named the image
  removeImage, \* its argument remove_image
  (* history *)
  unanswered,  \* the registry has failed a call
  stale        \* the cache was filled before the build and the run

fetchVars == <<cache, fetch, unanswered>>
buildVars == <<build, output, idSeen, removeImage>>
imageVars == <<local, remote, fetchVars, buildVars, stale>>

\* Whatever the process and others have done with the tag before.
ImagesInit ==
  /\ local \in {NoImage, "old", "new"} /\ remote \in {NoImage, "new"}
  /\ cache \in {NoImage, "old", "new"} /\ stale = (cache # NoImage)
  /\ fetch = "idle" /\ unanswered = FALSE
  /\ build \in {"none", "log"} /\ idSeen = FALSE
  /\ IF build = "log" THEN output \in BOOLEAN /\ removeImage \in BOOLEAN
     ELSE output = FALSE /\ removeImage = FALSE

--------------------------------------------------------------------------------
(* build_image and async_build_image. *)

\* _docker_build: a message of the log; one it does not know, or any at all if there is
\* no output to print it to, raises.
BuildMessage ==
  /\ build = "log"
  /\ \E message \in {"stream", "id", "error", "other"} :
       /\ idSeen' = (idSeen \/ message = "id")
       /\ local' = IF message = "id" THEN "built" ELSE local
       /\ build' = IF message \in {"error", "other"} \/ ~output THEN "failed" ELSE "log"
  /\ UNCHANGED <<remote, fetchVars, output, removeImage, stale>>

\* The log ends.
BuildEnds ==
  /\ build = "log"
  /\ build' = IF idSeen THEN "yielded" ELSE "failed"
  /\ output' = FALSE /\ idSeen' = FALSE
  /\ UNCHANGED <<local, remote, fetchVars, removeImage, stale>>

\* The exit of build_image without an exception.
RemoveImage ==
  /\ build = "yielded"
  /\ build' = "left"
  /\ local' = IF removeImage THEN NoImage ELSE local
  /\ UNCHANGED <<remote, fetchVars, output, idSeen, removeImage, stale>>

\* What is behind the yield is not run when an exception comes out of it, nor does it get
\* far if the daemon refuses to remove the image.
KeepImage ==
  /\ build = "yielded"
  /\ build' = "left"
  /\ UNCHANGED <<local, remote, fetchVars, output, idSeen, removeImage, stale>>

--------------------------------------------------------------------------------
(* _get_up_to_date_image. *)

FetchStep == UNCHANGED <<remote, buildVars, stale>>
Fetched(image) == fetch' = "fetched" /\ cache' = image

BeginFetch ==
  /\ fetch = "idle"
  /\ fetch' = IF cache # NoImage THEN "fetched" ELSE "look"
  /\ FetchStep /\ UNCHANGED <<local, cache, unanswered>>

\* An image that lists no digests is taken as it is; one that was built may list none.
LookLocal ==
  /\ fetch = "look"
  /\ \/ local = NoImage /\ fetch' = "pull" /\ UNCHANGED cache
     \/ local # NoImage /\ fetch' = "compare" /\ UNCHANGED cache
     \/ local = "built" /\ Fetched(local)
  /\ FetchStep /\ UNCHANGED <<local, unanswered>>

\* The digest of the registry is compared with those of the image; a registry that does
\* not know the tag, or does not answer, leaves it as it is.
Compare ==
  /\ fetch = "compare"
  /\ \/ /\ remote # NoImage
        /\ IF remote # local THEN fetch' = "update" /\ UNCHANGED cache ELSE Fetched(local)
        /\ UNCHANGED unanswered
     \/ Fetched(local) /\ unanswered' = TRUE
  /\ FetchStep /\ UNCHANGED local

\* The pull of a newer image: what it raises is caught, and the one at hand is taken.
Update ==
  /\ fetch = "update"
  /\ \/ Fetched(remote) /\ local' = remote /\ UNCHANGED unanswered
     \/ Fetched(local) /\ unanswered' = TRUE /\ UNCHANGED local
  /\ FetchStep

\* The pull of an image that is not there: what it raises is not caught, and not cached.
Pull ==
  /\ fetch = "pull"
  /\ \/ remote # NoImage /\ Fetched(remote) /\ local' = remote /\ UNCHANGED unanswered
     \/ fetch' = "failed" /\ unanswered' = TRUE /\ UNCHANGED <<local, cache>>
  /\ FetchStep

Fetch == BeginFetch \/ LookLocal \/ Compare \/ Update \/ Pull

\* create_and_pull passes the tag to the daemon, not the image it has fetched.
EndFetch ==
  /\ fetch' = "idle"
  /\ FetchStep /\ UNCHANGED <<local, cache, unanswered>>

\* ... and after the last container nothing is fetched any more: what only fetching looks
\* at is forgotten.
EndLastFetch ==
  /\ fetch' = "idle" /\ cache' = NoImage /\ remote' = NoImage
  /\ unanswered' = FALSE /\ stale' = FALSE
  /\ UNCHANGED <<local, buildVars>>
================================================================================
