------------------------------- MODULE Plugins -------------------------------
(***************************************************************************)
(* Signed plugin manifests (crates/plugin).  A package is two files: the   *)
(* signed manifest and the binary it names by hash.  Releases replace them *)
(* one after the other, and a manifest may be edited after it was signed.  *)
(* Whoever loads a plugin (external: the embedding program) reads the files*)
(* one after the other too, and gives what it read to verify_plugin.       *)
(* External: a signature verifies exactly under the key that made it and   *)
(* for the manifest it was made for; hashes differ when binaries do.       *)
(***************************************************************************)
CONSTANTS Keys,          (* signers                                        *)
          Releases,      (* releases of one plugin, and so their hashes    *)
          Nothing

VARIABLES trustedKeys,   (* PluginKeyring.trusted_keys                     *)
          manifest,      (* the manifest file                              *)
          binary,        (* the release the binary file is from            *)
          held,          (* what the loader has read: [manifest, binary]   *)
          loaded,        (* the release that was loaded last               *)
          signed         (* history: who signed a manifest for what        *)

pluginVars == << trustedKeys, manifest, binary, held, loaded, signed >>

NothingHeld == [manifest |-> Nothing, binary |-> Nothing]

PluginsInit ==
    /\ trustedKeys = {} /\ signed = {}
    /\ manifest = Nothing /\ binary = Nothing
    /\ held = NothingHeld /\ loaded = Nothing

AddKey(k) ==
    /\ trustedKeys' = trustedKeys \cup {k}
    /\ UNCHANGED << manifest, binary, held, loaded, signed >>

-----------------------------------------------------------------------------
(* The files *)

(* sign_manifest: the signature covers the manifest, the signer's key and  *)
(* the hash of the binary in it included.                                  *)
SignedManifest(k, r) ==
    [signer |-> k, hash |-> r, signature |-> [key |-> k, signer |-> k, hash |-> r]]

PublishManifest(k, r) ==
    /\ manifest' = SignedManifest(k, r)
    /\ signed' = signed \cup {<< k, r >>}
    /\ UNCHANGED << trustedKeys, binary, held, loaded >>

PublishBinary(r) ==
    /\ binary' = r
    /\ UNCHANGED << trustedKeys, manifest, held, loaded, signed >>

EditManifest(k, r) ==
    /\ manifest # Nothing
    /\ manifest' = [manifest EXCEPT !.signer = k, !.hash = r]
    /\ UNCHANGED << trustedKeys, binary, held, loaded, signed >>

-----------------------------------------------------------------------------
(* The loader *)

ReadManifest ==
    /\ manifest # Nothing
    /\ held' = [held EXCEPT !.manifest = manifest]
    /\ UNCHANGED << trustedKeys, manifest, binary, loaded, signed >>

ReadBinary ==
    /\ binary # Nothing
    /\ held' = [held EXCEPT !.binary = binary]
    /\ UNCHANGED << trustedKeys, manifest, binary, loaded, signed >>

(* Mutant: the signer is looked up, the signature not verified. *)
VerifyManifestUnsigned(m) == m.signer \in trustedKeys

VerifyManifest(m) ==
    /\ m.signer \in trustedKeys
    /\ m.signature = [key |-> m.signer, signer |-> m.signer, hash |-> m.hash]

VerifyPlugin(m, r) == VerifyManifest(m) /\ r = m.hash

LoadPlugin ==
    /\ held.manifest # Nothing /\ held.binary # Nothing
    /\ VerifyPlugin(held.manifest, held.binary)
    /\ loaded' = held.binary
    /\ held' = NothingHeld
    /\ UNCHANGED << trustedKeys, manifest, binary, signed >>

PluginsNext ==
    \/ \E k \in Keys : AddKey(k)
    \/ \E k \in Keys, r \in Releases : PublishManifest(k, r) \/ EditManifest(k, r)
    \/ \E r \in Releases : PublishBinary(r)
    \/ ReadManifest
    \/ ReadBinary
    \/ LoadPlugin

-----------------------------------------------------------------------------

(***************************************************************************)
(* Whatever is released, half released, edited and trusted between the     *)
(* loader's two reads and the verification: a release that is loaded is one*)
(* for which somebody whose key is trusted signed a manifest.              *)
(***************************************************************************)
LoadedAsSigned ==
    loaded # Nothing => \E k \in trustedKeys : << k, loaded >> \in signed
=============================================================================
