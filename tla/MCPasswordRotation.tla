------------------------- MODULE MCPasswordRotation -------------------------
EXTENDS PasswordRotation

\* A state in which a rotation has just met another one's changes is checked but
\* not explored further: of what follows it the properties of this run say nothing.
Orderly == ~overlap
=============================================================================
