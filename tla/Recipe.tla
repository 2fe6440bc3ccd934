------------------------------- MODULE Recipe -------------------------------
(***************************************************************************)
(* ykdf-config, and the merging of recipes with flags in the command line: *)
(* what a derivation's parameters are.  All of it is pure; Commands runs   *)
(* it.                                                                     *)
(*                                                                         *)
(* An optional value is a sequence of at most one element.  A catalogue is *)
(*   [defaults |-> [pipeline, index, layered],                             *)
(*    recipe   |-> name -> [profile, purpose, pipeline, index, layered, wg]] *)
(* and a WireGuard section                                                 *)
(*   [address, listen_port, dns, mtu, peers],                              *)
(* where a peer's key is [text, padded]: blanks around it or not.          *)
(***************************************************************************)
EXTENDS Core

Or(a, b) == IF a # <<>> THEN a ELSE b
UnwrapOr(a, v) == IF a # <<>> THEN a[1] ELSE v
-----------------------------------------------------------------------------
(* Where the catalogue comes from. *)

\* A variable that is not set, and one that is set to nothing, do not count.
Set(value) == value \notin {"unset", ""}

DefaultPath(env) ==
  IF Set(env.XDG_CONFIG_HOME) THEN <<env.XDG_CONFIG_HOME \o "/ykdf/config.toml">>
  ELSE IF Set(env.HOME) THEN <<env.HOME \o "/.config/ykdf/config.toml">>
  ELSE <<>>

Empty == [defaults |-> [pipeline |-> <<>>, index |-> <<>>, layered |-> <<>>], recipe |-> <<>>]

\* `files' maps a path to [is |-> "catalogue", catalogue |-> c] or to [is |-> "missing",
\* "unreadable" or "malformed"]; a path that it does not map is missing.
FileAt(files, path) == IF path \in DOMAIN files THEN files[path] ELSE [is |-> "missing"]

Load(explicit, env, files) ==
  LET asked == Or(explicit, IF Set(env.YKDF_CONFIG) THEN <<env.YKDF_CONFIG>> ELSE <<>>)
      path == Or(asked, DefaultPath(env))
  IN  IF path = <<>> THEN Ok(Empty)
      ELSE LET file == FileAt(files, path[1]) IN
           CASE file.is = "catalogue" -> Ok(file.catalogue)
             [] file.is = "missing" /\ asked = <<>> -> Ok(Empty)
             [] file.is = "malformed" -> Err("Parse")
             [] OTHER -> Err("Io")
-----------------------------------------------------------------------------
(* Catalogue::resolve *)

Trim(key) == [key EXCEPT !.padded = FALSE]

ResolveWg(profile, raw) ==
  IF profile # "x25519" THEN Err("WgNotX25519")
  ELSE IF \E k \in DOMAIN raw.peers :
            \/ raw.peers[k].public_key.text = ""
            \/ raw.peers[k].allowed_ips = <<>>
  THEN Err("WgPeerInvalid")
  ELSE Ok([raw EXCEPT !.peers =
             [k \in DOMAIN @ |-> [@[k] EXCEPT !.public_key = Trim(@)]]])

PipelineLabel(catalogue, raw) == Or(raw.pipeline, catalogue.defaults.pipeline)

Resolve(catalogue, name) ==
  IF name \notin DOMAIN catalogue.recipe THEN Err("UnknownRecipe")
  ELSE
  LET raw == catalogue.recipe[name]
      label == PipelineLabel(catalogue, raw)
      purpose == UnwrapOr(raw.purpose, name)
      index == UnwrapOr(Or(raw.index, catalogue.defaults.index), 0)
      layered == UnwrapOr(Or(raw.layered, catalogue.defaults.layered), FALSE)
      effective == UnwrapOr(label, DefaultPipeline(raw.profile))
      wg == IF raw.wg = <<>> THEN Ok(<<>>)
            ELSE Then(ResolveWg(raw.profile, raw.wg[1]), LAMBDA w : Ok(<<w>>))
  IN  IF raw.profile \notin Profile THEN Err("UnknownProfile")
      ELSE IF label # <<>> /\ label[1] \notin Pipeline THEN Err("UnknownPipeline")
      ELSE IF label # <<>> /\ ~ Accepts(raw.profile, label[1]) THEN Err("PipelineNotAccepted")
      ELSE IF ~ WithPipeline(raw.profile, effective, purpose, index).ok THEN Err("InvalidRecipe")
      ELSE Then(wg, LAMBDA w :
             Ok([profile |-> raw.profile, pipeline |-> label, purpose |-> purpose,
                 index |-> index, layered |-> layered, wg |-> w]))
-----------------------------------------------------------------------------
(* derive.rs, wg.rs: the flags on top.  `loaded' is what Load returned; it *)
(* is looked at only when a recipe is named.                               *)

Named(flags, loaded) ==
  IF flags.recipe = <<>> THEN Ok(<<>>)
  ELSE Then(loaded, LAMBDA catalogue :
              Then(Resolve(catalogue, flags.recipe[1]), LAMBDA r : Ok(<<r>>)))

Of(recipe, field) == IF recipe = <<>> THEN <<>> ELSE <<recipe[1][field]>>

\* Mutant: what the recipe says stands before the flag.
MergeRecipeFirst(flags, recipe, profile) ==
  [profile |-> profile,
   purpose |-> Or(flags.purpose, Of(recipe, "purpose"))[1],
   pipeline |-> UnwrapOr(Or(flags.pipeline, IF recipe = <<>> THEN <<>> ELSE recipe[1].pipeline),
                         DefaultPipeline(profile)),
   index |-> UnwrapOr(Or(Of(recipe, "index"), flags.index), 0),
   layered |-> flags.layered \/ (recipe # <<>> /\ recipe[1].layered)]

Merge(flags, recipe, profile) ==
  [profile |-> profile,
   purpose |-> Or(flags.purpose, Of(recipe, "purpose"))[1],
   pipeline |-> UnwrapOr(Or(flags.pipeline, IF recipe = <<>> THEN <<>> ELSE recipe[1].pipeline),
                         DefaultPipeline(profile)),
   index |-> UnwrapOr(Or(flags.index, Of(recipe, "index")), 0),
   layered |-> flags.layered \/ (recipe # <<>> /\ recipe[1].layered)]

ResolveParams(flags, loaded) ==
  Then(Named(flags, loaded), LAMBDA recipe :
    LET profile == Or(flags.profile, Of(recipe, "profile")) IN
    IF profile = <<>> THEN Err("MissingProfile")
    ELSE IF Or(flags.purpose, Of(recipe, "purpose")) = <<>> THEN Err("MissingPurpose")
    ELSE Ok(Merge(flags, recipe, profile[1])))

\* `wg' has no --profile, and takes a recipe of no other profile than x25519.
ResolveWgParams(flags, loaded) ==
  Then(Named(flags, loaded), LAMBDA recipe :
    IF recipe # <<>> /\ recipe[1].profile # "x25519" THEN Err("WgProfileMismatch")
    ELSE IF Or(flags.purpose, Of(recipe, "purpose")) = <<>> THEN Err("MissingPurpose")
    ELSE Ok(Merge(flags, recipe, "x25519")))

WgSection(flags, loaded) ==
  LET recipe == Named(flags, loaded) IN
  IF recipe.ok /\ recipe.val # <<>> THEN recipe.val[1].wg ELSE <<>>
-----------------------------------------------------------------------------
(* WireGuard: the fields of a config, and its text as a sequence of lines. *)

NoSection == [address |-> <<>>, listen_port |-> <<>>, dns |-> <<>>, mtu |-> <<>>, peers |-> <<>>]

\* merge_list is Or: a flag that repeats replaces the recipe's list wholesale.
Interface(flags, section) ==
  LET wg == UnwrapOr(section, NoSection) IN
  [address |-> Or(flags.address, wg.address),
   listen_port |-> Or(flags.listen_port, wg.listen_port),
   dns |-> Or(flags.dns, wg.dns),
   mtu |-> Or(flags.mtu, wg.mtu),
   peers |-> IF flags.peer_pubkey = <<>> THEN wg.peers
             ELSE << [public_key |-> flags.peer_pubkey[1], endpoint |-> flags.endpoint,
                      allowed_ips |-> flags.allowed_ips, keepalive |-> flags.keepalive] >>]

\* push_field and the optional lines: an empty list has no line.
Line(key, values) == IF values = <<>> THEN <<>> ELSE << <<key, values>> >>

AppendBlock(peer) ==
  << <<"[Peer]", <<>> >>, <<"PublicKey", <<peer.public_key>> >> >>
  \o Line("Endpoint", peer.endpoint)
  \o Line("AllowedIPs", peer.allowed_ips)
  \o Line("PersistentKeepalive", peer.keepalive)

Render(wg, privateKey) ==
  << <<"[Interface]", <<>> >>, <<"PrivateKey", <<privateKey>> >> >>
  \o Line("Address", wg.address)
  \o Line("ListenPort", wg.listen_port)
  \o Line("DNS", wg.dns)
  \o Line("MTU", wg.mtu)
  \o FlattenSeq([k \in DOMAIN wg.peers |-> AppendBlock(wg.peers[k])])

SelfPeerBlock(public, allowedIps, endpoint) ==
  << <<"[Peer]", <<>> >>, <<"PublicKey", <<public>> >>, <<"AllowedIPs", allowedIps>> >>
  \o Line("Endpoint", endpoint)
=============================================================================
