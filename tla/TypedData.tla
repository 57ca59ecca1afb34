---- MODULE TypedData ----
\* EIP-712 typed data, its digest and the comparison of launch intents.  Code: lib/syncnet-core.js, sections 7 and 9.
\* keccak256 is a tag around what it hashes; an ABI word is the value it holds, whatever type the value has.  A type is a
\* base name and the lengths of its array dimensions, the outermost last.  An atomic value is [v, form]: a form is another
\* spelling (a number or a text, the case of hexadecimal digits).
EXTENDS Integers, Sequences, SequencesExt

CONSTANTS None,
          AnyLength,          \* the length of a dynamic array
          Docs          \* [types, primaryType, domain, message]: typed data that may be signed or compared

VARIABLES signed, shown
vars == <<signed, shown>>
Refused == <<"throws">>

ATOMIC == {"uint256", "bool", "address", "string", "bytes32"}
DOMAIN_FIELDS == <<[name |-> "name", type |-> [base |-> "string", dims |-> <<>>]],
                   [name |-> "version", type |-> [base |-> "string", dims |-> <<>>]],
                   [name |-> "chainId", type |-> [base |-> "uint256", dims |-> <<>>]],
                   [name |-> "verifyingContract", type |-> [base |-> "address", dims |-> <<>>]],
                   [name |-> "salt", type |-> [base |-> "bytes32", dims |-> <<>>]]>>
Names(fields) == {fields[i].name : i \in 1..Len(fields)}

\* Every field of every struct, used or not, has a name of its own and a type that is known.
validateEipTypes(types) ==
  \A name \in DOMAIN types :
    /\ name \notin ATOMIC
    /\ \A i, j \in 1..Len(types[name]) : types[name][i].name = types[name][j].name => i = j
    /\ \A i \in 1..Len(types[name]) : types[name][i].type.base \in ATOMIC \cup DOMAIN types
\* The domain's type is the declared one, or follows from the keys of the domain in the order of the EIP.
withDomainType(domain, types) ==
  IF "EIP712Domain" \in DOMAIN types THEN types
  ELSE [name \in DOMAIN types \cup {"EIP712Domain"} |->
          IF name # "EIP712Domain" THEN types[name] ELSE SelectSeq(DOMAIN_FIELDS, LAMBDA f : f.name \in DOMAIN domain)]
DomainIsKnown(domain, types) == "EIP712Domain" \notin DOMAIN types => DOMAIN domain \subseteq Names(DOMAIN_FIELDS)

\* The structs a struct refers to, directly or not.
References(types, name) == {types[name][i].type.base : i \in 1..Len(types[name])} \cap DOMAIN types
RECURSIVE Collect(_, _)
Collect(types, deps) == LET more == UNION {References(types, n) : n \in deps} \ deps
                        IN IF more = {} THEN deps ELSE Collect(types, deps \cup more)
\* Mutation of encodeType: the structs it refers to are only named.
X_NamesOnly(types, primary) == <<<<primary, types[primary]>>>>
\* The struct, then the structs it refers to in alphabetical order; SetToSeq stands for an order of the names.
encodeType(types, primary) ==
  LET deps == SetToSeq(Collect(types, {primary}) \ {primary})
  IN <<<<primary, types[primary]>>>> \o [i \in 1..Len(deps) |-> <<deps[i], types[deps[i]]>>]

Hash(kind, parts) == <<"keccak", kind, parts>>
RECURSIVE encodeField(_, _, _), encodeData(_, _, _)
\* One word: the hash of the elements, of the struct or of the text, or the value itself.
encodeField(types, type, value) ==
  IF type.dims # <<>>
  THEN IF Last(type.dims) \notin {AnyLength, Len(value)} THEN Refused
       ELSE LET words == [i \in 1..Len(value) |-> encodeField(types, [type EXCEPT !.dims = Front(type.dims)], value[i])]
            IN IF \E i \in 1..Len(words) : words[i] = Refused THEN Refused ELSE Hash("words", words)
  ELSE IF type.base \in DOMAIN types THEN encodeData(types, type.base, value)
  ELSE IF type.base = "string" THEN Hash("text", <<value.v>>)
  ELSE <<"word", value.v>>
\* The value has exactly the declared properties.
Declared(types, name, data) == DOMAIN data = Names(types[name])
encodeData(types, name, data) ==
  IF ~Declared(types, name, data) THEN Refused
  ELSE LET words == [i \in 1..Len(types[name]) |-> encodeField(types, types[name][i].type, data[types[name][i].name])]
       IN IF \E i \in 1..Len(words) : words[i] = Refused THEN Refused
          ELSE Hash("words", <<Hash("type", encodeType(types, name))>> \o words)
\* keccak256(0x19 0x01, domain separator, hash of the message); a domain that is the primary type is hashed alone.
hashTypedData(td) ==
  LET types == withDomainType(td.domain, td.types)
      separator == encodeData(types, "EIP712Domain", td.domain)
      message == IF td.primaryType = "EIP712Domain" THEN <<"word", 0>> ELSE encodeData(types, td.primaryType, td.message)
  IN IF ~DomainIsKnown(td.domain, td.types) THEN Refused
     ELSE IF ~validateEipTypes(types) THEN Refused
     ELSE IF td.primaryType \notin DOMAIN types THEN Refused
     ELSE IF Refused \in {separator, message} THEN Refused ELSE Hash("digest", <<td.primaryType # "EIP712Domain", separator, message>>)

\* ---------------------------------------------------------------------------------------- the launch intent
Field(name, base) == [name |-> name, type |-> [base |-> base, dims |-> <<>>]]
IntentTypes == [EIP712Domain |-> <<Field("name", "string"), Field("version", "string"), Field("chainId", "uint256")>>,
                LaunchIntent |-> <<Field("operator", "address"), Field("token", "address"),
                                   Field("recordHash", "bytes32"), Field("salt", "bytes32")>>]
Spelt(value) == [v |-> value, form |-> "plain"]
launchIntentTypedData(in) ==
  [types |-> IntentTypes, primaryType |-> "LaunchIntent",
   domain |-> [name |-> Spelt("SyncNet Launch Provenance"), version |-> Spelt("1"), chainId |-> Spelt(in.chainId)],
   message |-> [operator |-> in.operator, token |-> in.token, recordHash |-> in.recordHash, salt |-> in.salt]]
\* An intent has atomic fields only.
sameAtom(type, u, v) == type.dims = <<>> /\ type.base \in ATOMIC /\ u.v = v.v
sameStructValues(fields, x, y) == /\ DOMAIN x = Names(fields) /\ DOMAIN y = Names(fields)
                                  /\ \A i \in 1..Len(fields) : sameAtom(fields[i].type, x[fields[i].name], y[fields[i].name])
sameTypedIntent(a, b) ==
  /\ a.primaryType = "LaunchIntent" /\ b.primaryType = "LaunchIntent" /\ a.types = b.types
  /\ {"EIP712Domain", "LaunchIntent"} \subseteq DOMAIN a.types
  /\ sameStructValues(a.types.EIP712Domain, a.domain, b.domain)
  /\ sameStructValues(a.types.LaunchIntent, a.message, b.message)

Init == signed = None /\ shown = None
Sign(td) == signed = None /\ hashTypedData(td) # Refused /\ signed' = td /\ UNCHANGED shown
Show(td) == signed # None /\ shown = None /\ hashTypedData(td) # Refused /\ shown' = td /\ UNCHANGED signed
Next == \E td \in Docs : Sign(td) \/ Show(td)
TypedDataSpec == Init /\ [][Next]_vars

\* ----------------------------------------------------------------------------------------------- properties
\* External: what a record claims, spelling aside.
RECURSIVE Claim(_, _, _)
Claim(types, type, value) ==
  IF type.dims # <<>> THEN [i \in 1..Len(value) |-> Claim(types, [type EXCEPT !.dims = Front(type.dims)], value[i])]
  ELSE IF type.base \notin DOMAIN types THEN value.v
  ELSE LET fields == types[type.base]
       IN {<<k, IF k \in Names(fields) THEN LET f == CHOOSE i \in 1..Len(fields) : fields[i].name = k
                                            IN Claim(types, fields[f].type, value[k])
                ELSE "undeclared">> : k \in DOMAIN value}
Types(td) == LET types == withDomainType(td.domain, td.types)
             IN {<<n, types[n]>> : n \in Collect(types, {"EIP712Domain", td.primaryType})}
Claims(td) == LET types == withDomainType(td.domain, td.types)
              IN <<Types(td), Claim(types, [base |-> "EIP712Domain", dims |-> <<>>], td.domain),
                   IF td.primaryType = "EIP712Domain" THEN "none" ELSE Claim(types, [base |-> td.primaryType, dims |-> <<>>], td.message)>>
\* syncnet-core.js:653 "Accepting them would let a record claim fields that nobody signed": what is shown with a
\* signature of other typed data makes exactly the claims that were signed, in the types they were signed in; and an
\* intent is found the same as another exactly when the digest, so the signer, is.
ShownIsSigned ==
  shown # None =>
    /\ hashTypedData(shown) = hashTypedData(signed) => shown.primaryType = signed.primaryType /\ Claims(shown) = Claims(signed)
    /\ sameTypedIntent(signed, shown) => hashTypedData(shown) = hashTypedData(signed)
    /\ shown.types = IntentTypes /\ hashTypedData(shown) = hashTypedData(signed) /\ signed.types = shown.types
         /\ shown.primaryType = "LaunchIntent" => sameTypedIntent(signed, shown)
====
