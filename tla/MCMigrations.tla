----------------------------- MODULE MCMigrations -----------------------------
\* The six migrations of persistence/migrations.py: the number of statements in
\* each script, and the one statement that does not say IF NOT EXISTS.
EXTENDS Migrations

MCSize == <<4, 7, 2, 4, 3, 1>>
MCNotRepeatable == {<<2, 1>>}
=============================================================================
