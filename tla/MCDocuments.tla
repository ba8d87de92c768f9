---------------------------- MODULE MCDocuments -------------------------------
(***************************************************************************)
(* Signed documents for TLC: a good one and the same with one element      *)
(* missing or differently written, signed by each signer and changed by    *)
(* each tool.                                                              *)
(***************************************************************************)
EXTENDS SignedDocuments, Integers

Txt(kind, length, value) == [kind |-> kind, length |-> length, value |-> value]
Dig(length, value) == Txt("digits", length, value)

GoodTexts ==
    [tpAmb |-> Dig(1, 2), dhEmi |-> Txt("datetime", 25, 0), verAplic |-> Txt("word", 5, 0),
     serie |-> Dig(5, 1), nDPS |-> Dig(2, 12), dCompet |-> Txt("date", 10, 0), tpEmit |-> Dig(1, 1),
     cLocEmi |-> Dig(7, 1), subst |-> Dig(1, 2), CNPJ |-> Dig(14, 1), xNome |-> Txt("word", 9, 0),
     cTribNac |-> Dig(6, 1), xDescServ |-> Txt("word", 9, 0), cLocPrest |-> Dig(7, 1),
     vServPrest |-> Txt("decimal", 7, 1000), vServ |-> Txt("decimal", 7, 1000)]

\* A document as the validator wants it, of the elements that the texts have.
FlatDPS(id, texts) ==
    LET Leaf(tag) == IF tag \in DOMAIN texts THEN <<Element(tag, <<Data(texts[tag])>>)>> ELSE <<>>
        Group(tag, child) == IF child = <<>> THEN <<>> ELSE <<Element(tag, child)>>
        infDPS == Element("infDPS",
            Leaf("tpAmb") \o Leaf("dhEmi") \o Leaf("verAplic") \o Leaf("serie") \o Leaf("nDPS")
            \o Leaf("dCompet") \o Leaf("tpEmit") \o Leaf("cLocEmi") \o Leaf("subst")
            \o Group("prest", Leaf("CNPJ") \o Leaf("CPF") \o Leaf("xNome"))
            \o Group("serv", Leaf("cTribNac") \o Leaf("xDescServ") \o Leaf("cLocPrest"))
            \o Group("valores", Leaf("vServPrest") \o Leaf("vServ")))
    IN [Element("DPS",
            << [infDPS EXCEPT !.attrs =
                  IF id = {} THEN <<>>
                  ELSE << [key |-> "Id", value |-> CHOOSE i \in id : TRUE],
                          [key |-> "versao", value |-> "1.00"] >>] >>)
        EXCEPT !.xmlns = "nfse"]

Without(f, tag) == [t \in DOMAIN f \ {tag} |-> f[t]]

PlainTexts == Without(GoodTexts, "vServ")

Odd == {Blank, Dig(1, 1), Dig(1, 3), Dig(1, 4), Dig(5, 0), Dig(6, 0), Dig(7, 0), Dig(11, 1), Dig(14, 1),
        Dig(15, 1), Dig(16, 1), Txt("punctuated", 14, 0), Txt("decimal", 3, 0), Txt("comma", 5, 1000),
        Txt("decimal", 5, -10), Txt("date", 10, 0), Txt("localtime", 19, 0), Txt("word", 2001, 0)}

TextVariants ==
    {[PlainTexts EXCEPT ![tag] = t] : tag \in DOMAIN PlainTexts, t \in Odd} \cup {Without(PlainTexts, tag) : tag \in DOMAIN PlainTexts}

Cpf(t) == [tag \in DOMAIN PlainTexts \cup {"CPF"} |-> IF tag = "CPF" THEN t ELSE PlainTexts[tag]]

OtherVariants ==
    {Without(Cpf(t), "CNPJ") : t \in {Dig(11, 1), Dig(10, 1), Txt("punctuated", 11, 0)}}
    \cup {Cpf(Dig(11, 1)), Without(GoodTexts, "vServPrest"), GoodTexts,
          Without(Without(GoodTexts, "vServPrest"), "vServ")}

GoodCert == [name |-> "issuer", private |-> TRUE, dates |-> "current", usage |-> "any", bits |-> 2048]
PlainPost == [type |-> "xml", decodes |-> TRUE, query |-> FALSE]

MakePlan(unsigned, signer, tool, cert, post) ==
    [unsigned |-> unsigned, signer |-> signer, tool |-> tool, cert |-> cert, post |-> post]

Signers == {"nobody", "worker", "service", "standard"}
Tools == {"none", "comment", "instruct", "reorder", "reindent", "amend"}
Posts == [type : {"xml", "json", "other"}, decodes : BOOLEAN, query : BOOLEAN]

GoodDPS == FlatDPS({"DPS1"}, PlainTexts)

PlainPlan == MakePlan(GoodDPS, "service", "none", GoodCert, PlainPost)

\* Laid out without white space, as SignDPS does, otherwise, or by the builder with the
\* builder's elements; without an Id, of another namespace, of another root.
Layouts == {GoodDPS, Indent(GoodDPS, 2, 1), Indent(GoodDPS, 4, 1), BuiltDPS("DPS1", GoodTexts),
            FlatDPS({""}, PlainTexts), FlatDPS({}, PlainTexts), [GoodDPS EXCEPT !.xmlns = "other"],
            [GoodDPS EXCEPT !.tag = "NFSe"]}

AllPlans ==
    {MakePlan(d, s, t, GoodCert, PlainPost) : d \in Layouts, s \in Signers, t \in Tools}
    \cup {MakePlan(FlatDPS({"DPS1"}, v), s, "none", GoodCert, PlainPost) :
             v \in TextVariants \cup OtherVariants, s \in Signers}
    \cup {MakePlan(d, s, "none", c, PlainPost) :
             d \in {GoodDPS}, s \in Signers, c \in Certificate}
    \cup {MakePlan(GoodDPS, "service", "none", GoodCert, p) : p \in Posts}
===============================================================================
