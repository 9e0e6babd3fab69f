--------------------------- MODULE ClientIdentity ----------------------------
(***************************************************************************)
(* The client certificate of a sign-in (crates/gpapi: utils/request.rs,       *)
(* utils/identity_encoding.rs, utils/certificate, gp_params.rs; gpservice:    *)
(* vpn_task.rs prepare_identity). It is loaded from one or two files that     *)
(* somebody may be replacing, held as a snapshot by the parameters of the     *)
(* sign-in, handed to the service as data and written out for OpenConnect.    *)
(***************************************************************************)
EXTENDS Integers, Sequences, FiniteSets

CONSTANTS MaxCalls, MaxClients, None

VARIABLE s

\* A key pair is a number; the files are renewed from pair 1 to pair 2.
\* A certificate names the pair it certifies, its subject and its issuer.
Leaf(pair) == [pair |-> pair, subject |-> "leaf", issuer |-> "ca"]
Renewed(pair) == [pair |-> pair, subject |-> "leaf", issuer |-> "other"]
Root == [pair |-> 0, subject |-> "ca", issuer |-> "ca"]
Ring1 == [pair |-> 0, subject |-> "ca", issuer |-> "ring"]
Ring2 == [pair |-> 0, subject |-> "ring", issuer |-> "ca"]

\* A private key: its encoding, and how it is locked, if it is.
Key(pair, tag, lock, secret) == [pair |-> pair, tag |-> tag, lock |-> lock, secret |-> secret]
Plain(pair) == Key(pair, "pkcs8", None, None)

\* A file: PEM blocks, one DER value, a PKCS#12 archive, or something else.
\* A key in an archive has no lock of its own, the archive has a secret.
File(form, certs, keys, secret) == [form |-> form, certs |-> certs, keys |-> keys, secret |-> secret]

CertificateFiles(v) ==
  [chain   |-> File("pem", <<Leaf(v), Root>>, <<>>, None),
   both    |-> File("pem", <<Leaf(v)>>, <<Plain(v)>>, None),
   keyOnly |-> File("pem", <<>>, <<Plain(v)>>, None),
   der     |-> File("der", <<Leaf(v)>>, <<>>, None),
   junk    |-> File("junk", <<>>, <<>>, None),
   p12     |-> File("p12", <<Root, Leaf(v), Leaf(v)>>, <<Plain(v)>>, "right"),
   open    |-> File("p12", <<Ring1, Leaf(v), Ring2>>, <<Plain(v)>>, ""),
   nul     |-> File("p12", <<Leaf(v)>>, <<Plain(v)>>, "nul"),
   alone   |-> File("p12", <<Leaf(v)>>, <<>>, "right"),
   twoKeys |-> File("p12", <<Leaf(v)>>, <<Plain(v), Plain(3)>>, "right"),
   twice   |-> File("p12", <<Leaf(v), Renewed(v)>>, <<Plain(v)>>, "right"),
   foreign |-> File("p12", <<Root>>, <<Plain(v)>>, "right")]
KeyFiles(v) ==
  [plain   |-> File("pem", <<>>, <<Plain(v)>>, None),
   rsaDer  |-> File("der", <<>>, <<Key(v, "rsa", None, None)>>, None),
   ec      |-> File("pem", <<>>, <<Key(v, "ec", None, None)>>, None),
   dek     |-> File("pem", <<>>, <<Key(v, "rsa", "dek", "right")>>, None),
   dekNul  |-> File("pem", <<>>, <<Key(v, "ec", "dek", "nul")>>, None),
   dekTag  |-> File("pem", <<>>, <<Key(v, "pkcs8", "dek", "right")>>, None),
   dekBad  |-> File("pem", <<>>, <<Key(v, "rsa", "malformed", "right")>>, None),
   dekOld  |-> File("pem", <<>>, <<Key(v, "rsa", "dekDes", "right")>>, None),
   pbes2   |-> File("der", <<>>, <<Key(v, "encrypted", "pbes2", "right")>>, None),
   pbesNul |-> File("pem", <<>>, <<Key(v, "encrypted", "pbes2", "nul")>>, None),
   pbes1   |-> File("pem", <<>>, <<Key(v, "encrypted", "pbes1", "right")>>, None),
   pbes1Long |-> File("pem", <<>>, <<Key(v, "encrypted", "pbes1", "long")>>, None),
   rc2     |-> File("pem", <<>>, <<Key(v, "encrypted", "rc2", "right")>>, None),
   openssh |-> File("pem", <<>>, <<Key(v, "openssh", None, None)>>, None),
   none    |-> File("pem", <<Leaf(v)>>, <<>>, None)]
Passwords == {None, "right", "wrong", "nul", "long"}

Ok(value) == [ok |-> TRUE, value |-> value]
Refused(why) == [ok |-> FALSE, why |-> why]

-----------------------------------------------------------------------------
\* decrypt of certificate/gnutls.rs: GnuTLS wants a passphrase without a NUL.
DecryptLegacy(key, pass) ==
  CASE pass = None -> Refused("no passphrase")
    [] pass = "nul" -> Refused("nul")
    [] pass # None /\ pass # "nul" -> IF pass = key.secret THEN Ok(Plain(key.pair)) ELSE Refused("decrypt")

\* decrypt of an "ENCRYPTED PRIVATE KEY".
Decrypt(key, pass) ==
  CASE key.lock = "pbes1" -> IF pass = "long" THEN Refused("too long") ELSE DecryptLegacy(key, pass)
    [] key.lock = "rc2" -> Refused("encryption")
    [] key.lock = "pbes2" -> IF pass = None THEN Refused("no passphrase")
                             ELSE IF pass = key.secret THEN Ok(Plain(key.pair)) ELSE Refused("decrypt")

\* traditional_encryption: the headers of a PEM block, if it has any.
TraditionalEncryption(key) ==
  CASE key.lock = "dek" -> Ok(TRUE)
    [] key.lock = "dekDes" -> Refused("encryption")
    [] key.lock = "malformed" -> Refused("invalid")
    [] OTHER -> Ok(FALSE)

\* private_key. The first private key of a file; a file may hold none.
PrivateKey(file, pass) ==
  IF file.form \notin {"pem", "der"} THEN Refused("invalid")
  ELSE IF file.keys = <<>> THEN Refused("no key")
  ELSE LET key == file.keys[1]
           headers == TraditionalEncryption(key) IN
    IF ~headers.ok THEN headers
    ELSE IF headers.value THEN (IF key.tag \in {"rsa", "ec"} THEN DecryptLegacy(key, pass) ELSE Refused("invalid"))
    ELSE CASE key.tag \in {"pkcs8", "rsa"} -> Ok(Plain(key.pair))
           [] key.tag = "ec" -> Ok(key)
           [] key.tag = "encrypted" -> Decrypt(key, pass)
           [] OTHER -> Refused("format")

\* certificate_chain.
CertificateChain(file) ==
  IF file.form \notin {"pem", "der"} \/ file.certs = <<>> THEN Refused("certificate") ELSE Ok(file.certs)

\* pem_request_identity: the key is the first certificate's.
PemRequestIdentity(chain, key) ==
  IF chain = <<>> \/ chain[1].pair # key.pair THEN Refused("mismatch") ELSE Ok([chain |-> chain, pair |-> key.pair])

Remove(seq, i) == [j \in 1..(Len(seq) - 1) |-> IF j < i THEN seq[j] ELSE seq[j + 1]]
First(seq, P(_)) == CHOOSE i \in DOMAIN seq: P(seq[i]) /\ \A j \in 1..(i - 1): ~P(seq[j])

\* The same certificate is in the archive once.
RECURSIVE Distinct(_)
Distinct(certs) ==
  IF certs = <<>> THEN <<>>
  ELSE LET before == Distinct(SubSeq(certs, 1, Len(certs) - 1))
           cert == certs[Len(certs)] IN
       IF \E i \in DOMAIN before: before[i] = cert THEN before ELSE Append(before, cert)

\* From the leaf to an issuer that is in the archive, and was not taken yet.
RECURSIVE Issuers(_, _)
Issuers(current, certs) ==
  LET Parent(cert) == cert.subject = current.issuer IN
  <<current>> \o
    IF current.subject = current.issuer \/ ~\E i \in DOMAIN certs: Parent(certs[i]) THEN <<>>
    ELSE LET i == First(certs, Parent) IN Issuers(certs[i], Remove(certs, i))

\* identity of certificate/pkcs12.rs.
Pkcs12(file, pass) ==
  LET given == IF pass = None THEN "" ELSE pass
      key == file.keys[1]
      certs == Distinct(file.certs)
      matches == {i \in DOMAIN certs: certs[i].pair = key.pair} IN
  CASE pass = "nul" -> Refused("nul")
    [] pass # "nul" /\ (file.form # "p12" \/ file.secret # given) -> Refused(IF pass = None THEN "no passphrase" ELSE "archive")
    [] OTHER ->
         IF file.keys = <<>> \/ file.certs = <<>> THEN Refused("incomplete")
         ELSE IF Len(file.keys) # 1 THEN Refused("ambiguous")
         ELSE IF matches = {} THEN Refused("certificate")
         ELSE IF Cardinality(matches) > 1 THEN Refused("ambiguous")
         ELSE LET leaf == CHOOSE i \in matches: TRUE IN PemRequestIdentity(Issuers(certs[leaf], Remove(certs, leaf)), key)

-----------------------------------------------------------------------------
Material(identity, certificate, key, pass) == [identity |-> identity, certificate |-> certificate, key |-> key, passphrase |-> pass]

\* from_data: a key beside the certificate says PEM, none says PKCS#12.
FromData(certificate, key, pass) ==
  IF key # None
  THEN LET identity == PemRequestIdentity(certificate.certs, key) IN
       IF identity.ok THEN Ok(Material(identity.value, certificate, key, None)) ELSE identity
  ELSE LET identity == Pkcs12(certificate, pass) IN
       IF identity.ok THEN Ok(Material(identity.value, certificate, None, IF pass = None THEN "" ELSE pass)) ELSE identity

IsArchive(name) == name \in {"p12", "open", "nul", "alone", "twoKeys", "twice", "foreign"}

\* load, from the bytes the two reads returned. The name says what an archive is.
Load(name, certificate, keyFile, pass) ==
  IF IsArchive(name) THEN FromData(certificate, None, pass)
  ELSE LET key == PrivateKey(IF keyFile # None THEN keyFile ELSE certificate, pass)
           chain == CertificateChain(certificate) IN
    IF ~key.ok THEN key
    ELSE IF ~chain.ok THEN chain
    ELSE LET identity == PemRequestIdentity(chain.value, key.value) IN
      IF identity.ok THEN Ok(Material(identity.value, File("pem", chain.value, <<>>, None), key.value, None)) ELSE identity

\* write_files, and what a native library that opens the files with the
\* password beside them makes of them.
WriteFiles(m) ==
  [certificate |-> m.certificate, suffix |-> IF m.key # None THEN ".pem" ELSE ".p12", key |-> m.key]
NativeImport(files, pass) ==
  IF files.suffix = ".p12" THEN Pkcs12(files.certificate, pass)
  ELSE IF files.key.lock # None THEN Refused("locked")
  ELSE PemRequestIdentity(files.certificate.certs, files.key)

MAX_CLIENT_IDENTITY_DATA == 32

\* prepare_identity of the service, but for the load from paths itself.
PrepareIdentity(args, protected) ==
  LET size == (IF args.certificate # None THEN args.size ELSE 0) + (IF args.key # None THEN args.size ELSE 0) IN
  IF args.certificatePath \/ args.keyPath
  THEN IF args.certificate # None \/ args.key # None THEN Refused("mixed")
       ELSE IF protected THEN Refused("not a snapshot")
       ELSE IF ~args.certificatePath THEN Refused("key alone")
       ELSE Ok("load")
  ELSE IF size > MAX_CLIENT_IDENTITY_DATA THEN Refused("size")
  ELSE CASE args.certificate = None /\ args.key = None -> Ok(None)
         [] args.certificate = None /\ args.key # None -> Refused("key alone")
         [] args.certificate # None -> FromData(args.certificate, args.key, args.pass)

-----------------------------------------------------------------------------
Idle == [for |-> None]
NoParams == [certificate |-> FALSE, sslkey |-> FALSE, pass |-> None, prepared |-> None]

Init ==
  \E cert \in DOMAIN CertificateFiles(1), key \in DOMAIN KeyFiles(1):
    \* An archive is its own key file, so one key file beside it is enough.
    /\ (IsArchive(cert) => key = "plain")
    /\ s = [cert |-> cert, key |-> key, version |-> [cert |-> 1, key |-> 1], params |-> NoParams, kept |-> None,
            load |-> Idle, used |-> {}, service |-> Idle, calls |-> 0, clients |-> 0]

CertificateFile == CertificateFiles(s.version.cert)[s.cert]
KeyFile == KeyFiles(s.version.key)[s.key]

\* Somebody renews the files, one after the other.
RenewFile ==
  \E file \in {"cert", "key"}:
    /\ s.version[file] = 1 /\ s' = [s EXCEPT !.version[file] = 2]

\* GpParamsBuilder: a path or a password replaces a snapshot, a snapshot them.
Building(params) ==
  /\ s.load = Idle /\ s.calls < MaxCalls
  /\ s' = [s EXCEPT !.params = params, !.calls = @ + 1, !.used = {}]
Certificate == \E given \in BOOLEAN: Building([s.params EXCEPT !.prepared = None, !.certificate = given])
Sslkey == \E given \in BOOLEAN: Building([s.params EXCEPT !.prepared = None, !.sslkey = given])
KeyPassword == \E pass \in Passwords: Building([s.params EXCEPT !.prepared = None, !.pass = pass])
GiveIdentity == \E identity \in {None, s.kept}: Building([NoParams EXCEPT !.prepared = identity])

\* prepare_client_identity, and client_builder without a snapshot: the first
\* file is read, the second may be read after both were replaced.
ReadCertificate(for) ==
  /\ s.load = Idle /\ s.params.prepared = None /\ s.params.certificate
  /\ s' = [s EXCEPT !.load = [for |-> for, certificate |-> CertificateFile]]
Loaded == Load(s.cert, s.load.certificate, IF s.params.sslkey THEN KeyFile ELSE None, s.params.pass)

PrepareClientIdentity ==
  \/ ReadCertificate("prepare")
  \/ /\ s.load.for = "prepare"
     /\ s' = IF Loaded.ok
             THEN [s EXCEPT !.load = Idle, !.kept = Loaded.value, !.params = [NoParams EXCEPT !.prepared = Loaded.value], !.used = {}]
             ELSE [s EXCEPT !.load = Idle]
  \/ /\ s.load = Idle /\ (s.params.prepared # None \/ ~s.params.certificate)
     /\ s' = [s EXCEPT !.params = [NoParams EXCEPT !.prepared = s.params.prepared]]

Serve(identity) == [s EXCEPT !.load = Idle, !.used = @ \cup {identity}, !.clients = @ + 1]
ClientBuilder ==
  \/ s.clients < MaxClients /\ ReadCertificate("client")
  \/ /\ s.load.for = "client"
     /\ s' = IF Loaded.ok THEN Serve(Loaded.value.identity) ELSE [s EXCEPT !.load = Idle, !.clients = @ + 1]
  \/ /\ s.load = Idle /\ s.params.prepared # None /\ s.clients < MaxClients
     /\ s' = Serve(s.params.prepared.identity)

\* A request carries the snapshot as data, whole or not, or paths, or both. It
\* is the last step: what the service makes of it depends on nothing else.
ServiceRequest ==
  /\ s.load = Idle /\ s.service = Idle /\ s.kept # None
  /\ \E certificate \in {None, s.kept.certificate}, key \in {None, s.kept.key}, pass \in {None, s.kept.passphrase},
        paths \in SUBSET {"certificate", "key"}, size \in {1, 16, 17}, protected \in BOOLEAN:
       LET args == [certificate |-> certificate, key |-> key, pass |-> pass, size |-> size,
                    certificatePath |-> "certificate" \in paths, keyPath |-> "key" \in paths] IN
       s' = [s EXCEPT !.params = NoParams, !.version = [cert |-> 2, key |-> 2], !.kept = None, !.used = {},
                      !.calls = MaxCalls, !.clients = MaxClients,
                      !.service = [for |-> s.kept, args |-> args, protected |-> protected,
                                  result |-> PrepareIdentity(args, protected)]]

Stutter == s' = s

Next ==
  \/ RenewFile \/ Certificate \/ Sslkey \/ KeyPassword \/ GiveIdentity
  \/ PrepareClientIdentity \/ ClientBuilder \/ ServiceRequest \/ Stutter

Spec == Init /\ [][Next]_s

-----------------------------------------------------------------------------
\* What the two files, as they are, open to with a password: nothing unless
\* the key can be had with it and is the one the certificate is about.
Openable(key, pass) ==
  /\ key.tag \in {"pkcs8", "rsa", "ec", "encrypted"}
  /\ \/ key.lock = None
     \/ /\ key.lock \in {"dek", "pbes1", "pbes2"} /\ pass = key.secret
        /\ (key.lock = "dek" => key.tag # "pkcs8") /\ (pass = "nul" => key.lock = "pbes2") /\ (key.lock = "pbes1" => pass # "long")
Usable(certificate, keyFile, pass) ==
  IF IsArchive(s.cert)
  THEN /\ pass # "nul" /\ certificate.secret = (IF pass = None THEN "" ELSE pass)
       /\ Len(certificate.keys) = 1
       /\ Cardinality({c \in {certificate.certs[i]: i \in DOMAIN certificate.certs}: c.pair = certificate.keys[1].pair}) = 1
  ELSE LET file == IF keyFile # None THEN keyFile ELSE certificate IN
       /\ certificate.form # "junk" /\ certificate.certs # <<>> /\ file.keys # <<>>
       /\ Openable(file.keys[1], pass) /\ certificate.certs[1].pair = file.keys[1].pair

\* A chain goes from a certificate to its issuer, never twice to the same.
Linked(chain) ==
  /\ \A i \in 1..(Len(chain) - 1): chain[i].issuer = chain[i + 1].subject
  /\ \A i, j \in DOMAIN chain: chain[i] = chain[j] => i = j

\* An identity whose certificate and key belong together, with the chain that
\* leads from it, and written out without a lock or with the password it needs.
Sound(m) ==
  /\ m.identity.chain[1].pair = m.identity.pair /\ Linked(m.identity.chain)
  /\ (m.key # None => m.passphrase = None /\ m.key.lock = None)
  /\ (m.key = None => m.passphrase # None)
  /\ NativeImport(WriteFiles(m), m.passphrase) = Ok(m.identity)

\* The identity of a sign-in (request.rs "Loaded once by the authentication
\* owner", gp_params.rs:141-179): what is loaded from files that are being
\* renewed is one pair or nothing; once prepared, every client of the sign-in,
\* the native library and the service have that identity whatever becomes of
\* the files, and neither paths nor a password are left beside it; what a
\* load refuses is exactly what cannot be used.
IdentityKept ==
  /\ s.params.prepared # None =>
       /\ Sound(s.params.prepared)
       /\ ~s.params.certificate /\ ~s.params.sslkey /\ s.params.pass = None
       /\ s.used \subseteq {s.params.prepared.identity}
  /\ \A identity \in s.used: identity.chain[1].pair = identity.pair
  /\ s.load # Idle => (Loaded.ok <=> Usable(s.load.certificate, IF s.params.sslkey THEN KeyFile ELSE None, s.params.pass))
  /\ s.service # Idle =>
       LET args == s.service.args
           result == s.service.result IN
       /\ ((args.certificatePath \/ args.keyPath) /\ result.ok
             => ~s.service.protected /\ args.certificate = None /\ args.key = None /\ args.certificatePath)
       /\ (args.certificate # None /\ (args.key = s.service.for.key) /\ args.pass = s.service.for.passphrase
             /\ ~args.certificatePath /\ ~args.keyPath
             => (result.ok <=> args.size * (IF args.key # None THEN 2 ELSE 1) <= MAX_CLIENT_IDENTITY_DATA))
       /\ (result.ok /\ args.certificate # None => result.value.identity = s.service.for.identity)
==============================================================================
