---------------------------- MODULE MCCvUploads ----------------------------
(* Every kind of entry; a CV with one of each, and one that repeats a job.  *)
EXTENDS CvUploads

MCKind == [profile |-> "profile", name |-> "catalog", skill |-> "link",
           work |-> "keyed", school |-> "unkeyed", project |-> "project",
           sample |-> "sample"]
MCCVs == {<<"profile", "name", "skill", "work", "school", "project">>,
          <<"profile", "work", "work">>}
=============================================================================
