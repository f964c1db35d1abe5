------------------------------ MODULE DomainRules ------------------------------
(***************************************************************************)
(* The pure rules of packages/contracts/src/stage3-domain.ts about files    *)
(* and innovator profiles.                                                 *)
(***************************************************************************)
EXTENDS Integers

PITCH_DOCUMENT_PURPOSES ==
  {"PITCH_DECK", "PITCH_BUSINESS_PLAN", "PITCH_FINANCIAL_MODEL", "PITCH_PROTOTYPE_IMAGE",
   "PITCH_SUPPORTING_EVIDENCE"}

SPONSOR_DOCUMENT_PURPOSES ==
  {"SPONSOR_REGISTRATION_CERT", "SPONSOR_PROOF_OF_ADDRESS", "SPONSOR_TAX_EVIDENCE",
   "SPONSOR_LETTER_OF_AUTHORITY"}

DocumentPurpose == PITCH_DOCUMENT_PURPOSES \union SPONSOR_DOCUMENT_PURPOSES

MIME_ALLOWLIST ==
  [p \in DocumentPurpose |->
     CASE p = "PITCH_FINANCIAL_MODEL" -> {"pdf", "xlsx"}
       [] p = "PITCH_PROTOTYPE_IMAGE" -> {"png", "jpeg"}
       [] OTHER                       -> {"pdf"}]

getMaxBytesForPurpose(p) == IF p = "PITCH_PROTOTYPE_IMAGE" THEN 8388608 ELSE 15728640

isMimeAllowed(p, mime) == mime \in MIME_ALLOWLIST[p]

--------------------------------------------------------------------------------
(* Profile completeness: every check is required; a profile is the set of    *)
(* its fields that hold something.                                          *)

ProfileFields == {"firstName", "lastName", "headline", "biography", "stateId", "sectorIds",
                  "organizationName", "isIndependent"}

Points(weight, met) == IF met THEN weight ELSE 0

\* A slip (Bug_...) that no action uses: the two answers to one check both count.
Bug_CheckCountedTwice(fields) ==
    Points(85, ProfileFields \ {"organizationName", "isIndependent"} \subseteq fields)
  + Points(15, "organizationName" \in fields)
  + Points(15, "isIndependent" \in fields)

\* The weights add up to 100, so the percentage needs no rounding.
completionPercent(fields) ==
    Points(10, "firstName" \in fields)
  + Points(10, "lastName" \in fields)
  + Points(15, "headline" \in fields)
  + Points(20, "biography" \in fields)
  + Points(15, "stateId" \in fields)
  + Points(15, "sectorIds" \in fields)
  + Points(15, "isIndependent" \in fields \/ "organizationName" \in fields)
================================================================================
