----------------------------- MODULE MCCommands -----------------------------
(***************************************************************************)
(* Command lines and catalogues for TLC.  The first half crosses what a    *)
(* recipe, the defaults and the flags may say; the second runs every verb  *)
(* with every kind of failure, over a catalogue that is edited.            *)
(***************************************************************************)
EXTENDS Commands

Base == [verb |-> "derive", config |-> <<>>, recipe |-> <<>>, profile |-> <<>>, purpose |-> <<>>,
         pipeline |-> <<>>, index |-> <<>>, layered |-> FALSE, passphrase |-> FALSE,
         ikm_file |-> <<>>, format |-> <<>>, length |-> <<>>, hash |-> "sha512", out |-> <<>>,
         address |-> <<>>, listen_port |-> <<>>, dns |-> <<>>, mtu |-> <<>>,
         peer_pubkey |-> <<>>, endpoint |-> <<>>, allowed_ips |-> <<>>, keepalive |-> <<>>]

Plain == [profile |-> "x25519", purpose |-> <<>>, pipeline |-> <<>>, index |-> <<>>,
          layered |-> <<>>, wg |-> <<>>]
File(catalogue) == [is |-> "catalogue", catalogue |-> catalogue]
At(path, content) == [p \in {path} |-> content]

Home == <<"home">>
HomeFile == "/h/.config/ykdf/config.toml"
AtHome == {[YKDF_CONFIG |-> "", XDG_CONFIG_HOME |-> "unset", HOME |-> "/h"]}
-----------------------------------------------------------------------------
(* Parameters *)

Raws == [profile : {"x25519", "mlkem768", "aes"}, purpose : {<<>>, << <<"wg">> >>, << <<"Upper">> >>},
         pipeline : {<<>>, <<"shake256">>, <<"md5">>}, index : {<<>>, <<1>>},
         layered : {<<>>, <<FALSE>>}, wg : {<<>>}]
AllDefaults == [pipeline : {<<>>, <<"hkdf-sha3-512">>}, index : {<<>>, <<2>>}, layered : {<<>>, <<TRUE>>}]
ManyDisks == {At(HomeFile, File([defaults |-> d, recipe |-> At(Home, r)])) : d \in AllDefaults, r \in Raws}

Derives ==
  {[Base EXCEPT !.recipe = <<Home>>, !.profile = p, !.purpose = u, !.pipeline = k, !.index = i,
                !.layered = l] :
     p \in {<<>>, <<"ed25519">>}, u \in {<<>>, << <<"mail">> >>},
     k \in {<<>>, <<"hkdf-sha512">>, <<"shake256">>}, i \in {<<>>, <<3>>}, l \in BOOLEAN}
Audits == {[Base EXCEPT !.verb = v, !.recipe = <<Home>>] : v \in {"recipe show", "wg key"}}
ManyInvocations == Derives \cup Audits
-----------------------------------------------------------------------------
(* Flow *)

Key(text, padded) == [text |-> text, padded |-> padded]
Peer(key, ips) == [public_key |-> key, endpoint |-> <<>>, allowed_ips |-> ips, keepalive |-> <<25>>]
Section(address, peers) ==
  [address |-> address, listen_port |-> <<51820>>, dns |-> <<"1.1.1.1">>, mtu |-> <<>>, peers |-> peers]

Cat(recipe) == File([defaults |-> Empty.defaults, recipe |-> At(Home, recipe)])
Contents ==
  {Cat([Plain EXCEPT !.wg = <<Section(<<"10.0.0.2/24">>, <<Peer(Key("k1", TRUE), <<"0.0.0.0/0">>)>>)>>]),
   Cat([Plain EXCEPT !.index = <<1>>, !.wg = <<Section(<<>>, <<>>)>>]),
   [is |-> "missing"]}
BadContents ==
  {Cat([Plain EXCEPT !.profile = "mlkem768"]),
   Cat([Plain EXCEPT !.profile = "ed25519", !.wg = <<Section(<<>>, <<>>)>>]),
   Cat([Plain EXCEPT !.wg = <<Section(<<>>, <<Peer(Key("", TRUE), <<"10.0.0.1/32">>)>>)>>]),
   [is |-> "malformed"], [is |-> "unreadable"]}

Environments ==
  {[YKDF_CONFIG |-> "", XDG_CONFIG_HOME |-> "/x", HOME |-> "/h"],
   [YKDF_CONFIG |-> "/env", XDG_CONFIG_HOME |-> "unset", HOME |-> "/h"]}
Paths == {"/cfg", "/env", "/x/ykdf/config.toml"}
FewDisks == {[p \in Paths |-> c] : c \in Contents}

Verbs ==
  {[Base EXCEPT !.verb = v, !.recipe = <<Home>>] : v \in {"recipe list", "recipe show", "wg pubkey"}}
Keys ==
  {[Base EXCEPT !.verb = v, !.profile = <<p>>, !.purpose = << <<"a">> >>, !.length = n, !.format = f] :
     v \in {"derive"}, p \in {"age-x25519", "raw"}, n \in {<<>>, <<48>>, <<0>>}, f \in {<<>>, <<"binary">>}}
Pubkeys ==
  {[Base EXCEPT !.verb = "pubkey", !.profile = <<p>>, !.purpose = << <<"a">> >>] :
     p \in {"symmetric", "ed25519"}}
  \cup {[Base EXCEPT !.verb = "pubkey", !.recipe = <<Home>>]}
Signs ==
  {[Base EXCEPT !.verb = "sign", !.profile = <<p>>, !.purpose = << <<"a">> >>, !.out = o, !.hash = h,
                !.passphrase = TRUE] :
     p \in {"ed25519", "mldsa65", "x25519"}, o \in {<<>>, <<"sig">>}, h \in {"sha256", "sha512"}}
Configs ==
  {[Base EXCEPT !.verb = v, !.config = c, !.recipe = <<Home>>, !.out = o, !.address = a,
                !.peer_pubkey = k, !.allowed_ips = IF k = <<>> THEN <<>> ELSE <<"10.1.0.0/16">>,
                !.ikm_file = f] :
     v \in {"wg peer", "wg config"}, c \in {<<>>, <<"/cfg">>}, o \in {<<>>, <<"wg0.conf">>},
     a \in {<<>>, <<"10.0.0.9/24">>}, k \in {<<>>, <<Key("k2", FALSE)>>},
     f \in {<<>>, <<[name |-> "test", len |-> 8]>>}}
FewInvocations == Verbs \cup Keys \cup Pubkeys \cup Signs
                  \cup {inv \in Configs : inv.verb = "wg config" \/ inv.out \o inv.peer_pubkey = <<>>}
-----------------------------------------------------------------------------
(* Both in one run: a behaviour is of the first half or of the second. *)

Disks == ManyDisks \cup FewDisks
AllInvocations == ManyInvocations \cup FewInvocations
AllEnvironments == AtHome \cup Environments
Halves ==
  LET first == HomeFile \in DOMAIN files IN
  /\ env \in AtHome <=> first
  /\ first => edits = 0
  /\ "inv" \in DOMAIN cmd => cmd.inv \in IF first THEN ManyInvocations ELSE FewInvocations
=============================================================================
