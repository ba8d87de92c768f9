----------------------------- MODULE XmlSignature -----------------------------
(***************************************************************************)
(* XMLSigner and XMLVerifier.  A digest is the canonical form it is taken  *)
(* of, and an RSA signature says which canonical form was signed with the  *)
(* key of which certificate.  A certificate carries its private key        *)
(* ("private") when it comes from a PFX and not when it comes from a       *)
(* KeyInfo.  A document is its DPS element.                                *)
(***************************************************************************)
EXTENDS XmlCanonical

CONSTANT ValidateCertificate    \* the router's setting: does the verifier look at the dates?

XMLDSig == "http://www.w3.org/2000/09/xmldsig#"

Certificate ==
    [name : {"issuer", "other"}, private : BOOLEAN, dates : {"current", "expired", "future"},
     usage : {"any", "signature", "encipherment"}, bits : {512, 1024, 2048}]

Validate(cert) == cert.dates = "current" /\ cert.private

\* Extended key usages are looked at and never refused.
ValidateForSigning(cert) ==
    Validate(cert) /\ cert.usage # "encipherment" /\ cert.bits >= 1024

-------------------------------------------------------------------------------
\* SignedInfo as it is built: no white space, the namespace declared on it.
buildSignedInfo(id, digest) ==
    [Element("SignedInfo",
        << Element("CanonicalizationMethod", <<>>), Element("SignatureMethod", <<>>),
           [Element("Reference",
               << Element("Transforms", <<>>), Element("DigestMethod", <<>>),
                  Element("DigestValue", <<Data(digest)>>) >>)
            EXCEPT !.attrs = <<[key |-> "URI", value |-> id]>>] >>)
     EXCEPT !.xmlns = XMLDSig]

\* In the Signature the SignedInfo inherits the namespace and declares none.
buildSignatureElement(signedInfo, value, cert) ==
    [Element("Signature",
        << [signedInfo EXCEPT !.xmlns = ""],
           Element("SignatureValue", <<Data(value)>>),
           Element("KeyInfo",
               << Element("X509Data",
                      << Element("X509Certificate",
                             <<Data([cert EXCEPT !.private = FALSE])>>) >>) >>) >>)
     EXCEPT !.xmlns = XMLDSig]

signData(canonical, cert) == [signed |-> canonical, key |-> cert.name]

createSignature(infDPS, id, cert) ==
    LET signedInfo == buildSignedInfo(id, CanonicalizeSigned(infDPS))
    IN buildSignatureElement(signedInfo, signData(Canonicalize(signedInfo, ""), cert), cert)

\* What another signer makes, who canonicalises as the standard says.
standardSignature(infDPS, id, cert, namespace) ==
    LET signedInfo == buildSignedInfo(id, ExcC14N(infDPS, namespace))
    IN buildSignatureElement(signedInfo, signData(ExcC14N(signedInfo, ""), cert), cert)

Appended(dps, signature) == [dps EXCEPT !.child = Append(@, signature)]

Signable(dps, cert) ==
    /\ ValidateForSigning(cert)
    /\ \E infDPS \in Find(dps, "infDPS") : Attribute(infDPS, "Id") # {}

\* The element to sign and its Id, once the document is known to be signable.
Signed(dps, Signature(_, _)) ==
    LET infDPS == CHOOSE x \in Find(dps, "infDPS") : TRUE
    IN Appended(dps, Signature(infDPS, CHOOSE id \in Attribute(infDPS, "Id") : TRUE))

SignDPSCompact(dps, cert) ==
    Signed(dps, LAMBDA infDPS, id : createSignature(infDPS, id, cert))

\* Mutant: pretty printed with four columns.
SignDPSWide(dps, cert) == Indent(SignDPSCompact(dps, cert), 4, 1)

\* Pretty printed once it is signed.
SignDPS(dps, cert) == Indent(SignDPSCompact(dps, cert), 2, 1)

SignStandard(dps, cert) ==
    Signed(dps, LAMBDA infDPS, id : standardSignature(infDPS, id, cert, dps.xmlns))

-------------------------------------------------------------------------------
findSignatureElement(dps) == {x \in Elements(dps) : x.tag = "Signature"}

extractCertificate(signature) ==
    {Text(c) : c \in UNION {Find(d, "X509Certificate") :
                               d \in UNION {Find(k, "X509Data") :
                                               k \in Find(signature, "KeyInfo")}}}

findElementByID(dps, id) == {x \in Elements(dps) : id \in Attribute(x, "Id")}


verifyDigest(element, expected) == CanonicalizeSigned(element) = expected

verifySignatureValue(signedInfo, value, cert) ==
    /\ value.key = cert.name
    /\ value.signed = Canonicalize(signedInfo, XMLDSig)

\* The verifier has nothing but the certificate: with ValidateCertificate, Validate
\* misses the private key of every one.
VerifySignature(dps, SignedElementID) ==
    \E signature \in findSignatureElement(dps) :
    \E signedInfo \in Find(signature, "SignedInfo"), value \in Find(signature, "SignatureValue"),
       cert \in extractCertificate(signature) :
    \E reference \in Find(signedInfo, "Reference") :
       /\ ValidateCertificate => Validate(cert)
       /\ SignedElementID \in Attribute(reference, "URI")
       /\ \E digestValue \in Find(reference, "DigestValue"),
             element \in findElementByID(dps, SignedElementID) :
                verifyDigest(element, Text(digestValue))
       /\ verifySignatureValue(signedInfo, Text(value), cert)

VerifyDPSSignature(dps) ==
    \E infDPS \in Find(dps, "infDPS") :
       \E id \in Attribute(infDPS, "Id") : VerifySignature(dps, id)
===============================================================================
