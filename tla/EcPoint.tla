------------------------------ MODULE EcPoint ------------------------------
(***************************************************************************)
(* The elliptic curve arithmetic of ec.c in Jacobian coordinates, and its  *)
(* two users in crypto.c: crypto_create_host_key_pair() and                *)
(* crypto_create_bus_key().  The field, the curve and the size of a byte   *)
(* are parameters; all numbers are below p, the remainders of divisions.   *)
(***************************************************************************)
EXTENDS Integers, Sequences, FiniteSetsExt, Powers

CONSTANTS
    EcCurves,      \* [p, a, b]: y^2 = x^3 + a x + b modulo the prime p
    ScalarBits,    \* bits of a scalar (160)
    Base,          \* values of a byte
    PointBytes,    \* bytes of a coordinate (20)
    BusKeyBytes    \* bytes of a bus key (16)

\* The field is that of a prime, in which every number but 0 has an inverse, and 2 is not 0.
ASSUME EcAssumption ==
    /\ Base \in Nat \ {0, 1} /\ ScalarBits \in Nat /\ PointBytes \in Nat
    /\ BusKeyBytes \in 1 .. PointBytes
    /\ \A c \in EcCurves :
          /\ c.p \in Nat /\ 2 < c.p /\ c.p <= Power(Base)[PointBytes] /\ c.a \in Nat
          /\ \A z \in 1 .. c.p - 1 : \E y \in 1 .. c.p - 1 : (z * y) % c.p = 1

VARIABLES
    ec_curve, ec_op, ec_scalar, ec_point,   \* the call
    ec_pc, ec_i,
    ec_result,     \* result of _gcry_mpi_ec_mul_point(), [x, y, z]
    ec_short,      \* history: an addition used the shortcut for z1 = 1
    ec_bytes       \* what the call returns

ec_vars == <<ec_curve, ec_op, ec_scalar, ec_point, ec_pc, ec_i, ec_result, ec_short, ec_bytes>>
ec_call == <<ec_curve, ec_op, ec_scalar, ec_point>>

F == ec_curve.p
Inv(x) == CHOOSE y \in 1 .. F - 1 : (x * y) % F = 1
Infinity == [x |-> 1, y |-> 1, z |-> 0]

-----------------------------------------------------------------------------
(* ec.c *)

\* The numerator of the slope; with a = p - 3 it is computed as 3(X - Z^2)(X + Z^2)
\* (mutant: Z is not squared).
SlopeOfZ(P) == (3 * (P.x - P.z) * (P.x + P.z)) % F
Slope(P) ==
    LET zz == (P.z * P.z) % F
    IN  IF ec_curve.a = F - 3 THEN (3 * (((P.x - zz) * (P.x + zz)) % F)) % F
        ELSE (3 * P.x * P.x + ec_curve.a * ((zz * zz) % F)) % F

\* _gcry_mpi_ec_dup_point()
Dup(P) ==
    LET l1 == Slope(P)
        yy == (P.y * P.y) % F
        l2 == (4 * P.x * yy) % F
        x3 == (l1 * l1 - 2 * l2) % F
    IN  IF P.y = 0 \/ P.z = 0 THEN Infinity
        ELSE [x |-> x3, y |-> (l1 * (l2 - x3) - 8 * ((yy * yy) % F)) % F, z |-> (2 * P.y * P.z) % F]

\* _gcry_mpi_ec_add_points(); when z1 is 1 the code takes x1 for x2 z1^2.
Add(P, Q) ==
    LET Cube(z) == (((z * z) % F) * z) % F
        l1 == (P.x * Q.z * Q.z) % F
        l2 == IF P.z = 1 THEN P.x ELSE (Q.x * P.z * P.z) % F
        l3 == (l1 - l2) % F
        l4 == (P.y * Cube(Q.z)) % F
        l5 == (Q.y * Cube(P.z)) % F
        l6 == (l4 - l5) % F
        t2 == (l3 * l3 * (l1 + l2)) % F
        x3 == (l6 * l6 - t2) % F
        l9 == (t2 - 2 * x3) % F
        y3 == ((l9 * l6 - (l4 + l5) * Cube(l3)) * Inv(2)) % F
    IN  IF P = Q THEN Dup(P)
        ELSE IF P.z = 0 THEN Q
        ELSE IF Q.z = 0 THEN P
        ELSE IF l3 # 0 THEN [x |-> x3, y |-> y3, z |-> (P.z * Q.z * l3) % F]
        ELSE IF l6 = 0 THEN Dup(P) ELSE Infinity

Bit(n, i) == (n \div Power(2)[i]) % 2
NBits(n) == Min({i \in 0 .. ScalarBits + 2 : Power(2)[i] > n})
Negative(P) == [P EXCEPT !.y = (F - P.y) % F]

\* _gcry_mpi_ec_mul_point(): the scalar k is 3k - 2k bit by bit (the point has z = 1 always).
\* A scalar of 0 is not modelled: the counter of the loop would start at 2^32 - 2.
MulStart ==
    /\ ec_pc = "call"
    /\ ec_result' = ec_point /\ ec_i' = NBits(3 * ec_scalar) - 2 /\ ec_pc' = "mul"
    /\ UNCHANGED <<ec_call, ec_short, ec_bytes>>

\* One turn of the loop.
MulStep ==
    LET twice == Dup(ec_result)
        h == Bit(3 * ec_scalar, ec_i)
        k == Bit(ec_scalar, ec_i)
    IN  /\ ec_pc = "mul" /\ ec_i > 0
        /\ ec_result' = CASE h = k -> twice
                          [] h > k -> Add(twice, ec_point)
                          [] h < k -> Add(twice, Negative(ec_point))
        /\ ec_short' = (ec_short \/ (h # k /\ twice.z = 1))
        /\ ec_i' = ec_i - 1
        /\ UNCHANGED <<ec_call, ec_pc, ec_bytes>>

\* _gcry_mpi_ec_get_affine(); at infinity x and y keep their value, 0.
Affine(P) ==
    LET zi == Inv(P.z)
        z2 == (zi * zi) % F
    IN  IF P.z = 0 THEN <<0, 0>> ELSE <<(P.x * z2) % F, (P.y * ((z2 * zi) % F)) % F>>

-----------------------------------------------------------------------------
(* crypto.c *)

\* gcry_mpi_print(): as many bytes as the number needs, the highest first.
PrintedLen(v) == Min({n \in 0 .. PointBytes : Power(Base)[n] > v})
Printed(v) ==
    LET n == PrintedLen(v) IN [j \in 1 .. n |-> (v \div Power(Base)[n - j]) % Base]

\* The bytes are moved to the end of the field (mutant: they are left at the beginning).
PadRight(s) == s \o [j \in 1 .. PointBytes - Len(s) |-> 0]
PadLeft(s) == [j \in 1 .. PointBytes - Len(s) |-> 0] \o s

\* crypto_create_host_key_pair(): the point; crypto_create_bus_key(): the last bytes of x.
\* When x needs fewer bytes than a bus key has, something in front of it is copied too.
Finish ==
    LET xy == Affine(ec_result)
        x == Printed(xy[1])
    IN  /\ ec_pc = "mul" /\ ec_i <= 0
        /\ \/ ec_op = "key_pair" /\ ec_bytes' = PadLeft(x) \o PadLeft(Printed(xy[2]))
           \/ /\ ec_op = "bus_key" /\ Len(x) >= BusKeyBytes
              /\ ec_bytes' = SubSeq(x, Len(x) - BusKeyBytes + 1, Len(x))
           \/ /\ ec_op = "bus_key" /\ Len(x) < BusKeyBytes
              /\ \E junk \in [1 .. BusKeyBytes - Len(x) -> {0, Base - 1}] : ec_bytes' = junk \o x
        /\ ec_pc' = "done"
        /\ UNCHANGED <<ec_call, ec_i, ec_result, ec_short>>

OnCurve(c, x, y) == (y * y - x * x * x - c.a * x - c.b) % c.p = 0

EcInit ==
    /\ ec_curve \in EcCurves /\ ec_op \in {"key_pair", "bus_key"}
    /\ ec_scalar \in 1 .. Power(2)[ScalarBits] - 1
    /\ ec_point \in {[x |-> x, y |-> y, z |-> 1] : x, y \in 0 .. ec_curve.p - 1}
    /\ OnCurve(ec_curve, ec_point.x, ec_point.y)
    /\ ec_pc = "call" /\ ec_i = 0 /\ ec_result = Infinity /\ ec_short = FALSE /\ ec_bytes = <<>>

EcNext == MulStart \/ MulStep \/ Finish

EcSpec == EcInit /\ [][EcNext]_ec_vars

-----------------------------------------------------------------------------
(* The group of the curve, in affine coordinates; <<>> is the neutral element. *)

GroupSum(P, Q) ==
    LET s == IF P = Q THEN ((3 * P[1] * P[1] + ec_curve.a) * Inv((2 * P[2]) % F)) % F
             ELSE ((P[2] - Q[2]) * Inv((P[1] - Q[1]) % F)) % F
        x == (s * s - P[1] - Q[1]) % F
    IN  IF P = <<>> THEN Q
        ELSE IF Q = <<>> THEN P
        ELSE IF P[1] = Q[1] /\ (P[2] + Q[2]) % F = 0 THEN <<>>
        ELSE <<x, (s * (P[1] - x) - P[2]) % F>>
Multiple ==
    LET m[n \in 0 .. ec_scalar] ==
            IF n = 0 THEN <<>> ELSE GroupSum(m[n - 1], <<ec_point.x, ec_point.y>>)
    IN  m[ec_scalar]

\* _gcry_mpi_ec_mul_point() computes the multiple of the point, by whatever points the loop
\* leads (through infinity, to the point itself or to its inverse).  (No addition met z1 = 1,
\* for which the code is wrong.)
MulIsMultiple ==
    ec_pc = "mul" /\ ec_i <= 0 /\ ~ec_short =>
        IF Multiple = <<>> THEN ec_result.z = 0
        ELSE ec_result.z # 0 /\ Affine(ec_result) = Multiple

\* The bytes of a key point give back the coordinates, also when they begin with zeros; a
\* bus key is the end of x, if x has so many bytes.
Value(s) ==
    LET value[j \in 0 .. Len(s)] == IF j = 0 THEN 0 ELSE Base * value[j - 1] + s[j]
    IN  value[Len(s)]
PointIsPrinted ==
    ec_pc = "done" =>
        LET xy == Affine(ec_result)
        IN  IF ec_op = "key_pair"
            THEN /\ Len(ec_bytes) = 2 * PointBytes
                 /\ Value(SubSeq(ec_bytes, 1, PointBytes)) = xy[1]
                 /\ Value(SubSeq(ec_bytes, PointBytes + 1, 2 * PointBytes)) = xy[2]
            ELSE /\ Len(ec_bytes) = BusKeyBytes
                 /\ xy[1] >= Power(Base)[BusKeyBytes - 1] => Value(ec_bytes) = xy[1] % Power(Base)[BusKeyBytes]
=============================================================================
