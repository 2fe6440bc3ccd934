------------------------------ MODULE MCPhone ------------------------------
(***************************************************************************)
(* The three layers of the Android app: the key in the field (NfcSession), *)
(* the activity and its threads (AndroidApp), and the native methods       *)
(* (JniBridge).  Each has what it needs of the others inside, so a         *)
(* behaviour is of the layer that `lane' names and the others stand still. *)
(***************************************************************************)
EXTENDS NfcSession, AndroidApp, JniBridge

CONSTANTS k1, k2, s1, s2, n1, n2, d1, d2

OwnPin == [d \in Device |-> IF d = d1 THEN n1 ELSE n2]

Full == [key |-> k1, cert |-> k1, slot2 |-> s1]
AllContents ==
  {Full, [Full EXCEPT !.slot2 = None], [Full EXCEPT !.cert = None],
   [Full EXCEPT !.cert = OtherKey], [Full EXCEPT !.key = None],
   [key |-> k1, cert |-> k2, slot2 |-> s2]}
-----------------------------------------------------------------------------
VARIABLE lane

all == <<lane, vars, appVars, jniVars>>

\* Arguments at the edges of what a jint, a label and a form can say.
Ikms == {[name |-> "a", len |-> 32], [name |-> "short", len |-> 15]}
DeriveArguments ==
  [pipeline : {"", "shake256", "md5"}, profile : {"x25519", "mlkem768", "raw", "symmetric", "aes"},
   purpose : {<<"mail">>, <<"Upper">>}, index : {-1, 0, 2147483647}]
WgArguments ==
  {a \in [purpose : {<<"wg">>}, index : {0}, address : {<<>>, <<"10.0.0.2/24">>, <<"null">>},
          listen_port : {-1, 0, 65535, 65536}, dns : {<<>>, <<"1.1.1.1", "9.9.9.9">>},
          mtu : {-1, 70000},
          peer_public_key : {[text |-> t, padded |-> p] : t \in {"", "k"}, p \in BOOLEAN},
          endpoint : {"", " ", "host:1"}, allowed_ips : {<<>>, <<"0.0.0.0/0">>},
          keepalive : {-1, 25, 65537}] : a.listen_port < 0 \/ a.keepalive < 0 \/ a.mtu < 0}

MCInit ==
  /\ Init /\ AppInit /\ JniInit
  /\ lane \in {"nfc", "app", "jni"}
  /\ lane # "nfc" => slot = [d \in Device |-> Full]

\* The second call to the bridge is the one the app makes after derive.
AsTheAppDoes ==
  calls = 1 /\ calls' = 2 =>
    /\ call.entry = "derive" /\ call'.entry = "derivePublic"
    /\ call'.ikm = call.ikm /\ call'.args = call.args

NfcStep(A) == lane = "nfc" /\ A /\ UNCHANGED <<lane, appVars, jniVars>>
AppStep(A) == lane = "app" /\ A /\ UNCHANGED <<lane, vars, jniVars>>
JniStep(A) == lane = "jni" /\ A /\ AsTheAppDoes /\ UNCHANGED <<lane, vars, appVars>>

\* Next of one of the three, action by action.
MCNext ==
  \/ NfcStep(Connect) \/ NfcStep(TagLost) \/ NfcStep(SelectPiv)
  \/ NfcStep(ReadSlot9dPublicPoint) \/ NfcStep(VerifyPin) \/ NfcStep(VerifyLost)
  \/ NfcStep(GeneralAuthenticate) \/ NfcStep(SelectOtp) \/ NfcStep(HmacSlot2)
  \/ \E d \in Device : NfcStep(Present(d)) \/ NfcStep(Leave(d))
  \/ AppStep(RunPosted) \/ AppStep(DeriveIkm) \/ AppStep(Throws)
  \/ AppStep(DeriveSecret) \/ AppStep(DerivePublic) \/ AppStep(HasPeer)
  \/ AppStep(WgConfig) \/ AppStep(Caught) \/ AppStep(Edit)
  \/ AppStep(ToggleSecret) \/ AppStep(ToggleConfig) \/ AppStep(SaveConfig)
  \/ AppStep(WriteConfigTo) \/ AppStep(OnTag) \/ AppStep(Recreate)
  \/ JniStep(Enter) \/ JniStep(Convert) \/ JniStep(DeriveIt) \/ JniStep(Return)

\* The fairness of AndroidApp.
MCSpec ==
  /\ MCInit /\ [][MCNext]_all
  /\ WF_all(AppStep(RunPosted)) /\ WF_all(AppStep(NfcThread))

\* Types of the three; the rest of their properties are stated with each.
Types == TypeOK /\ AppTypeOK /\ JniTypeOK
=============================================================================
