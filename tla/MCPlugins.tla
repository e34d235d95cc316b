----------------------------- MODULE MCPlugins -----------------------------
(***************************************************************************)
(* One local path and the zip of one repository with two good releases and  *)
(* one with an invalid plugin.json; the local plugin may take the slug of   *)
(* the repository, that of the core plugin or its file name.                *)
(***************************************************************************)
EXTENDS Plugins, TLC

MCLocal == {"/a"}
MCZip == "/github/o_r.zip"
MCNames == ("/a" :> "a") @@ (MCZip :> "o-r")
Plugin(slug) == [kind |-> "plugin", slug |-> slug]
MCContents == {Absent, [kind |-> "noEntry", slug |-> NoSlug], Plugin(NoSlug), Plugin("s"), Plugin(CoreSlug)}
MCRelease == ("1" :> Plugin("s")) @@ ("2" :> Plugin("s")) @@ ("3" :> [kind |-> "badManifest", slug |-> NoSlug])
Symmetry == Permutations(Requests) \cup Permutations(Configs)
=============================================================================
